---- MODULE Spec2Model ----
(***************************************************************************)
(* Conway's Game of Life on an unbounded grid: the string-keyed and the    *)
(* bit-packed sparse worlds, the neighbour engine, the generation stepper  *)
(* and the chunked server world (Convex mutations).                        *)
(*                                                                         *)
(* JavaScript strings are modelled as sequences of one-character strings,  *)
(* so that formatting a coordinate and parsing it back are two different   *)
(* computations.  JavaScript int32 bit operations are computed on 16-bit   *)
(* halves, so that every intermediate value stays inside 32 bits.          *)
(***************************************************************************)
EXTENDS Integers, Sequences, FiniteSets, TLC

VARIABLES
    world,        \* Set<string>: live cells of the string-keyed state holder
    packedWorld,  \* Set<number>: live cells of the bit-packed state holder
    generation,   \* generation counter of the state holder
    gameChunks,   \* table gameChunks: sequence of records, in creation order
    gameState,    \* table gameState: sequence of records (at most one is ever made)
    chunks,       \* table chunks (per-world chunk records), in creation order
    worlds,       \* table worlds: worldId -> generation
    steps,        \* stepSimulation runs since gameChunks was last cleared
    txns,         \* the cron's tickGameWorld transactions in progress
    heap,         \* the Set objects a view has made: object id -> members
    worldRef,     \* the object the view's world variable or signal refers to
    ui,           \* the view that runs, and its mouse state
    codecKey,     \* the key the codec produced last
    decoded,      \* the cell the codec decoded last
    op,           \* the handler that ran last
    before        \* what that handler read when it started (its input)

vars ==
    <<world, packedWorld, generation, gameChunks, gameState, chunks, worlds,
      steps, txns, heap, worldRef, ui, codecKey, decoded, op, before>>

heapVars == <<heap, worldRef, ui>>
uiVars == <<world, packedWorld, generation, heapVars>>
serverVars == <<gameChunks, gameState, chunks, worlds, steps, txns>>
codecVars == <<codecKey, decoded>>

-----------------------------------------------------------------------------
(* Bounds of the model *)

\* toggled / initial cells of the core specification lie in the rectangle
\* that starts at (-1, -1) and is GridWidth wide and GridHeight high
GridWidth == 3
GridHeight == 2
\* an initial world, and a world grown by toggling, has at most MaxCells cells
MaxCells == 4
\* ticks per behaviour
MaxGen == 2
\* the codecs are exercised on coordinates within CodecSpan of 0, of the
\* bounds of the signed 16-bit range, and of the first wrap beyond them
CodecSpan == 1
\* the two steppers are compared on worlds of at most ParityCells cells whose
\* coordinates lie within EdgeSpan of the bounds of the signed 16-bit range
ParityCells == 3
EdgeSpan == 1
\* a chunk update of a client carries at most MaxListLen packed codes
MaxListLen == 2
MapSpan == 130
MaxWorlds == 1
MaxHeap == 3
MaxEvents == 3
MaxBatch == 2

-----------------------------------------------------------------------------
(* JavaScript numbers <-> strings *)

Digits == <<"0", "1", "2", "3", "4", "5", "6", "7", "8", "9">>

RECURSIVE NatToString(_)
NatToString(n) ==
    IF n < 10 THEN <<Digits[n + 1]>>
    ELSE NatToString(n \div 10) \o <<Digits[(n % 10) + 1]>>

\* a formatter that loses the sign
NumberToStringUnsigned(n) == IF n < 0 THEN NatToString(-n) ELSE NatToString(n)

\* `${n}` for an integer n
NumberToString(n) == IF n < 0 THEN <<"-">> \o NatToString(-n) ELSE NatToString(n)

IsDigit(c) == \E d \in 1..10 : Digits[d] = c

DigitVal(c) == (CHOOSE d \in 1..10 : Digits[d] = c) - 1

RECURSIVE DigitsToNat(_)
DigitsToNat(s) ==
    IF Len(s) = 0 THEN 0
    ELSE DigitsToNat(SubSeq(s, 1, Len(s) - 1)) * 10 + DigitVal(s[Len(s)])

NaN == "NaN"

AllDigits(s) == \A i \in 1..Len(s) : IsDigit(s[i])

\* Number(s): the empty string is 0, a signed run of digits is its value,
\* anything else is NaN
StringToNumber(s) ==
    IF Len(s) = 0 THEN 0
    ELSE IF AllDigits(s) THEN DigitsToNat(s)
    ELSE IF s[1] = "-" /\ Len(s) > 1 /\ AllDigits(Tail(s)) THEN -DigitsToNat(Tail(s))
    ELSE IF s[1] = "+" /\ Len(s) > 1 /\ AllDigits(Tail(s)) THEN DigitsToNat(Tail(s))
    ELSE NaN

\* s.split(","): the pieces between the commas
RECURSIVE Split(_)
Split(s) ==
    IF \A i \in 1..Len(s) : s[i] # ","
    THEN <<s>>
    ELSE LET k == CHOOSE i \in 1..Len(s) :
                      s[i] = "," /\ \A j \in 1..(i - 1) : s[j] # ","
         IN <<SubSeq(s, 1, k - 1)>> \o Split(SubSeq(s, k + 1, Len(s)))

-----------------------------------------------------------------------------
(* JavaScript int32 bit operations, on two's complement values *)

\* the n bits below the sign bit of a & b, the low half and the high half:
\* a \div 2 ^ h is the arithmetic shift a >> h
RECURSIVE AndBits(_, _, _)
AndBits(a, b, n) ==
    IF n = 0 THEN 0
    ELSE IF n = 1 THEN (a % 2) * (b % 2)
    ELSE LET h == n \div 2
         IN AndBits(a % (2 ^ h), b % (2 ^ h), h)
            + (2 ^ h) * AndBits(a \div (2 ^ h), b \div (2 ^ h), n - h)

RECURSIVE OrBits(_, _, _)
OrBits(a, b, n) ==
    IF n = 0 THEN 0
    ELSE IF n = 1 THEN 1 - (1 - (a % 2)) * (1 - (b % 2))
    ELSE LET h == n \div 2
         IN OrBits(a % (2 ^ h), b % (2 ^ h), h)
            + (2 ^ h) * OrBits(a \div (2 ^ h), b \div (2 ^ h), n - h)

\* the weight of the sign bit, -2^31
SignBit32 == (-(2 ^ 30)) - (2 ^ 30)

\* a & b
BitAnd(a, b) == AndBits(a, b, 31) + (IF a < 0 /\ b < 0 THEN SignBit32 ELSE 0)

\* a | b
BitOr(a, b) == OrBits(a, b, 31) + (IF a < 0 \/ b < 0 THEN SignBit32 ELSE 0)

\* a << 1: bit 30 becomes the sign bit, bit 31 is lost
ShiftLeft1(a) ==
    LET low == a % (2 ^ 30)
        bit30 == (a \div (2 ^ 30)) % 2
    IN IF bit30 = 1 THEN (2 * low - 2 ^ 30) - 2 ^ 30 ELSE 2 * low

\* a << n
RECURSIVE ShiftLeft(_, _)
ShiftLeft(a, n) ==
    IF n = 0 THEN a
    ELSE IF n = 1 THEN ShiftLeft1(a)
    ELSE ShiftLeft(ShiftLeft(a, n \div 2), n - n \div 2)

\* a >> n, sign-propagating
ShiftRight(a, n) == a \div (2 ^ n)

-----------------------------------------------------------------------------
(* Coordinate codec, string variant *)

cellKey(x, y) == NumberToString(x) \o <<",">> \o NumberToString(y)

\* key.split(",").map(Number) as Cell: the array of every piece's number
parseCell(key) ==
    LET parts == Split(key)
    IN [i \in 1..Len(parts) |-> StringToNumber(parts[i])]

undefined == "undefined"

\* a[i - 1] of JavaScript, as destructuring reads it
ArrayItem(a, i) == IF i <= Len(a) THEN a[i] ELSE undefined

\* parseKey of the SVG view: const [x, y] = key.split(",").map(Number); return [x, y]
parseKey(key) ==
    LET nums == parseCell(key)
    IN <<ArrayItem(nums, 1), ArrayItem(nums, 2)>>

-----------------------------------------------------------------------------
(* Sparse world, neighbour engine and generation stepper, string keys *)

\* a neighbourhood that visits the cell itself in place of its right neighbour
neighborsWithSelf(cell) ==
    LET x == cell[1]
        y == cell[2]
    IN << <<x - 1, y - 1>>, <<x, y - 1>>, <<x + 1, y - 1>>,
          <<x - 1, y>>,                   <<x, y>>,
          <<x - 1, y + 1>>, <<x, y + 1>>, <<x + 1, y + 1>> >>

neighbors(cell) ==
    LET x == cell[1]
        y == cell[2]
    IN << <<x - 1, y - 1>>, <<x, y - 1>>, <<x + 1, y - 1>>,
          <<x - 1, y>>,                   <<x + 1, y>>,
          <<x - 1, y + 1>>, <<x, y + 1>>, <<x + 1, y + 1>> >>

\* One visit per live cell and per neighbour offset: the loop body
\* counts.set(key, (counts.get(key) || 0) + 1) runs once for each visit, with
\* key the key of that neighbour.
Visits(w) == w \X (1..8)

VisitKey(v) ==
    LET n == neighbors(parseCell(v[1]))[v[2]]
    IN cellKey(n[1], n[2])

\* The map after the loops: a key has an entry once it was set, and its value
\* is the number of times it was incremented from (undefined || 0).
neighborCounts(w) ==
    LET visited == {<<VisitKey(v), v>> : v \in Visits(w)}
    IN [key \in {p[1] : p \in visited} |->
            Cardinality({p \in visited : p[1] = key})]

\* a rule that lets a dead cell with two live neighbours be born
SurvivesOnTwo(count, wasAlive) == count = 3 \/ count = 2

Survives(count, wasAlive) == count = 3 \/ (count = 2 /\ wasAlive)

\* a stepper that keeps the live cells it never counted
nextGenerationKeepsUncounted(w) ==
    LET counts == neighborCounts(w)
    IN {k \in DOMAIN counts : Survives(counts[k], k \in w)}
       \cup {k \in w : k \notin DOMAIN counts}

nextGeneration(w) ==
    LET counts == neighborCounts(w)
    IN {key \in DOMAIN counts : Survives(counts[key], key \in w)}

\* a run that stops one generation early
RECURSIVE runShort(_, _)
runShort(w, n) == IF n <= 1 THEN w ELSE runShort(nextGeneration(w), n - 1)

RECURSIVE run(_, _)
run(w, n) == IF n <= 0 THEN w ELSE run(nextGeneration(w), n - 1)

createWorld(cells) == {cellKey(c[1], c[2]) : c \in cells}

\* the test patterns
blinker == createWorld({<<0, 0>>, <<1, 0>>, <<2, 0>>})

glider == createWorld({<<1, 0>>, <<2, 1>>, <<0, 2>>, <<1, 2>>, <<2, 2>>})

-----------------------------------------------------------------------------
(* Coordinate codec, sparse world and stepper, bit-packed variant *)

Mask16 == 65535

\* a packing that leaves out the mask of y
packedCellKeyUnmasked(x, y) == BitOr(ShiftLeft(x, 16), y)

\* (x << 16) | (y & 0xffff)
packedCellKey(x, y) == BitOr(ShiftLeft(x, 16), BitAnd(y, Mask16))

\* [key >> 16, key & 0xffff]
unpackKey(k) == <<ShiftRight(k, 16), BitAnd(k, Mask16)>>

packedCreateWorld(cells) == {packedCellKey(c[1], c[2]) : c \in cells}

packedVisitKey(v) ==
    LET n == neighbors(unpackKey(v[1]))[v[2]]
    IN packedCellKey(n[1], n[2])

packedNeighborCounts(w) ==
    LET visited == {<<packedVisitKey(v), v>> : v \in Visits(w)}
    IN [k \in {p[1] : p \in visited} |->
            Cardinality({p \in visited : p[1] = k})]

packedNextGeneration(w) ==
    LET counts == packedNeighborCounts(w)
    IN {k \in DOMAIN counts : Survives(counts[k], k \in w)}

-----------------------------------------------------------------------------
(* The interactive state holder: world, generation, tick and toggleCell *)

CoordsX == (-1)..(GridWidth - 2)
CoordsY == (-1)..(GridHeight - 2)
Grid == CoordsX \X CoordsY
SmallCellSets == {cs \in SUBSET Grid : Cardinality(cs) <= MaxCells}

HeapIdle ==
    /\ heap = <<>>
    /\ worldRef = 0
    /\ ui = [view |-> "none", isMouseDown |-> FALSE, lastToggledCell |-> <<>>, events |-> 0,
             placementMode |-> "single", selectedPattern |-> <<>>]

UiIdle ==
    /\ world = {}
    /\ packedWorld = {}
    /\ generation = 0
    /\ HeapIdle

ServerIdle ==
    /\ gameChunks = <<>>
    /\ gameState = <<>>
    /\ chunks = <<>>
    /\ worlds = <<>>
    /\ steps = 0
    /\ txns = <<>>

InitCore ==
    /\ \E cs \in SmallCellSets : world = createWorld(cs)
    /\ packedWorld = {}
    /\ generation = 0
    /\ HeapIdle
    /\ ServerIdle
    /\ codecKey = <<>>
    /\ decoded = <<>>
    /\ op = "init"
    /\ before = {}

tick ==
    /\ generation < MaxGen
    /\ world' = nextGeneration(world)
    /\ generation' = generation + 1
    /\ op' = "tick"
    /\ before' = world
    /\ UNCHANGED <<packedWorld, heapVars, serverVars, codecVars>>

toggleCell(x, y) ==
    /\ generation < MaxGen
    /\ LET key == cellKey(x, y)
       IN IF key \in world
          THEN world' = world \ {key}
          ELSE /\ Cardinality(world) < MaxCells
               /\ world' = world \cup {key}
    /\ op' = "toggleCell"
    /\ before' = {}
    /\ UNCHANGED <<packedWorld, generation, heapVars, serverVars, codecVars>>

NextCore ==
    \/ tick
    \/ \E x \in CoordsX, y \in CoordsY : toggleCell(x, y)

SpecCore == InitCore /\ [][NextCore]_vars

-----------------------------------------------------------------------------
(* The codecs on their own: encode a coordinate pair, then decode the key *)

Int16Min == -(2 ^ 15)
Int16Max == 2 ^ 15 - 1

CodecCoords ==
    UNION {{-i, i, Int16Min + i, Int16Max - i, Int16Min - 1 - i, Int16Max + 1 + i} :
               i \in 0..CodecSpan}
    \cup {-100, -10, -9, 9, 10, 100, 1000}

InitCodec ==
    /\ before \in CodecCoords \X CodecCoords
    /\ codecKey = <<>>
    /\ decoded = <<>>
    /\ op = "init"
    /\ UiIdle
    /\ ServerIdle

callCellKey ==
    /\ op = "init"
    /\ codecKey' = cellKey(before[1], before[2])
    /\ op' = "cellKey"
    /\ UNCHANGED <<uiVars, serverVars, decoded, before>>

callParseCell ==
    /\ op = "cellKey"
    /\ decoded' = parseCell(codecKey)
    /\ op' = "parseCell"
    /\ UNCHANGED <<uiVars, serverVars, codecKey, before>>

callPackedCellKey ==
    /\ op = "init"
    /\ codecKey' = packedCellKey(before[1], before[2])
    /\ op' = "packedCellKey"
    /\ UNCHANGED <<uiVars, serverVars, decoded, before>>

callUnpackKey ==
    /\ op = "packedCellKey"
    /\ decoded' = unpackKey(codecKey)
    /\ op' = "unpackKey"
    /\ UNCHANGED <<uiVars, serverVars, codecKey, before>>

NextCodec ==
    \/ callCellKey
    \/ callParseCell
    \/ callPackedCellKey
    \/ callUnpackKey

SpecCodec == InitCodec /\ [][NextCodec]_vars

-----------------------------------------------------------------------------
(* The two steppers side by side on the same cells *)

EdgeCoords == UNION {{Int16Min + i, Int16Max - i} : i \in 0..EdgeSpan}
EdgeCellSets ==
    {cs \in SUBSET (EdgeCoords \X EdgeCoords) : Cardinality(cs) <= ParityCells}

InitParity ==
    /\ \E cs \in EdgeCellSets :
          /\ world = createWorld(cs)
          /\ packedWorld = packedCreateWorld(cs)
    /\ generation = 0
    /\ HeapIdle
    /\ codecKey = <<>>
    /\ decoded = <<>>
    /\ op = "init"
    /\ before = <<{}, {}>>
    /\ ServerIdle

stepBoth ==
    /\ generation < MaxGen
    /\ world' = nextGeneration(world)
    /\ packedWorld' = packedNextGeneration(packedWorld)
    /\ generation' = generation + 1
    /\ op' = "stepBoth"
    /\ before' = <<world, packedWorld>>
    /\ UNCHANGED <<heapVars, serverVars, codecVars>>

NextParity == stepBoth

SpecParity == InitParity /\ [][NextParity]_vars

-----------------------------------------------------------------------------
(* The shared server world: tables gameChunks and gameState *)

ChunkSize == 64
SignLimit == 32768
Wrap16 == 65536

\* a JavaScript Map or Set iterates its keys in insertion order: the keys of
\* a sequence of insertions are its first occurrences, in order
InsertionOrder(s) ==
    LET IsFirst(i) == \A j \in 1..(i - 1) : s[j] # s[i]
        kept == SelectSeq([i \in 1..Len(s) |-> i], IsFirst)
    IN [n \in 1..Len(kept) |-> s[kept[n]]]

Range(s) == {s[i] : i \in 1..Len(s)}

RECURSIVE Flatten(_)
Flatten(ss) == IF Len(ss) = 0 THEN <<>> ELSE Head(ss) \o Flatten(Tail(ss))

\* a % n of JavaScript: the remainder has the sign of the dividend
JsRemainder(a, n) == IF a >= 0 THEN a % n ELSE -((-a) % n)

\* Math.floor(a / n) on integers
FloorDiv(a, n) == a \div n

\* a decode of the x field that leaves out the sign correction
unpackLocalXUnsigned(packed) == BitAnd(ShiftRight(packed, 16), Mask16)

\* let localX = (packed >> 16) & 0xffff; if (localX >= 0x8000) localX -= 0x10000
unpackLocalX(packed) ==
    LET localX == BitAnd(ShiftRight(packed, 16), Mask16)
    IN IF localX >= SignLimit THEN localX - Wrap16 ELSE localX

\* let localY = packed & 0xffff; if (localY >= 0x8000) localY -= 0x10000
unpackLocalY(packed) ==
    LET localY == BitAnd(packed, Mask16)
    IN IF localY >= SignLimit THEN localY - Wrap16 ELSE localY

\* the keys set in cellMap for one chunk record, in order
chunkCellKeys(chunk) ==
    [i \in 1..Len(chunk.cells) |->
        cellKey(chunk.chunkX * ChunkSize + unpackLocalX(chunk.cells[i]),
                chunk.chunkY * ChunkSize + unpackLocalY(chunk.cells[i]))]

\* cellMap.keys() after the conversion loop
cellMapKeys(table) ==
    InsertionOrder(Flatten([i \in 1..Len(table) |-> chunkCellKeys(table[i])]))

\* the offsets in the order of the loops: dx outside, dy inside, (0, 0) skipped
StepOffsets ==
    << <<-1, -1>>, <<-1, 0>>, <<-1, 1>>, <<0, -1>>, <<0, 1>>,
       <<1, -1>>, <<1, 0>>, <<1, 1>> >>

\* the neighborKey of every neighborCounts.set call, in order
neighborVisits(keys) ==
    [i \in 1..(8 * Len(keys)) |->
        LET c == parseCell(keys[((i - 1) \div 8) + 1])
            d == StepOffsets[((i - 1) % 8) + 1]
        IN cellKey(c[1] + d[1], c[2] + d[2])]

\* nextGenCells, in insertion order
nextGenCells(keys) ==
    LET visits == neighborVisits(keys)
        alive == Range(keys)
        count(k) == Cardinality({i \in 1..Len(visits) : visits[i] = k})
        Keep(k) == count(k) = 3 \/ (count(k) = 2 /\ k \in alive)
    IN SelectSeq(InsertionOrder(visits), Keep)

\* a local coordinate that keeps the sign of the remainder
localOfTruncated(w) == JsRemainder(w, ChunkSize)

\* ((x % 64) + 64) % 64
localOf(w) == JsRemainder(JsRemainder(w, ChunkSize) + ChunkSize, ChunkSize)

\* a chunk coordinate that rounds towards zero
chunkOfTruncated(w) == IF w >= 0 THEN w \div ChunkSize ELSE -((-w) \div ChunkSize)

\* Math.floor(x / 64)
chunkOf(w) == FloorDiv(w, ChunkSize)

\* ((localX & 0xffff) << 16) | (localY & 0xffff)
packLocal(localX, localY) ==
    BitOr(ShiftLeft(BitAnd(localX, Mask16), 16), BitAnd(localY, Mask16))

\* the chunk, the chunk key and the packed code the stepper derives from a key
chunkEntry(k) ==
    LET c == parseCell(k)
    IN [chunkX |-> chunkOf(c[1]),
        chunkY |-> chunkOf(c[2]),
        chunkKeyStr |-> cellKey(chunkOf(c[1]), chunkOf(c[2])),
        packed |-> packLocal(localOf(c[1]), localOf(c[2]))]

\* newChunks.values() after the grouping loop
newChunks(cells) ==
    LET entries == [i \in 1..Len(cells) |-> chunkEntry(cells[i])]
        chunkKeys == InsertionOrder([i \in 1..Len(entries) |-> entries[i].chunkKeyStr])
        first(ck) == CHOOSE i \in 1..Len(entries) :
                        /\ entries[i].chunkKeyStr = ck
                        /\ \A j \in 1..(i - 1) : entries[j].chunkKeyStr # ck
        InChunk(ck) == LET In(e) == e.chunkKeyStr = ck IN SelectSeq(entries, In)
    IN [n \in 1..Len(chunkKeys) |->
            [chunkX |-> entries[first(chunkKeys[n])].chunkX,
             chunkY |-> entries[first(chunkKeys[n])].chunkY,
             cells |-> [i \in 1..Len(InChunk(chunkKeys[n])) |->
                            InChunk(chunkKeys[n])[i].packed]]]

\* the records of gameChunks after the step: the old ones deleted, the new
\* ones inserted
steppedChunks(table) == newChunks(nextGenCells(cellMapKeys(table)))

\* the first record of the by_chunk index with these coordinates, 0 if none
existingChunk(table, chunkX, chunkY) ==
    IF \E i \in 1..Len(table) : table[i].chunkX = chunkX /\ table[i].chunkY = chunkY
    THEN CHOOSE i \in 1..Len(table) :
            /\ table[i].chunkX = chunkX /\ table[i].chunkY = chunkY
            /\ \A j \in 1..(i - 1) : ~(table[j].chunkX = chunkX /\ table[j].chunkY = chunkY)
    ELSE 0

RemoveAt(table, i) == SubSeq(table, 1, i - 1) \o SubSeq(table, i + 1, Len(table))

\* one pass of the loop of placeCells that stores whatever list it is given
placeOneKeepsEmpty(table, u) ==
    LET existing == existingChunk(table, u.chunkX, u.chunkY)
    IN IF existing # 0
       THEN [table EXCEPT ![existing].cells = u.cells]
       ELSE Append(table, [chunkX |-> u.chunkX, chunkY |-> u.chunkY, cells |-> u.cells])

\* one pass of the loop of placeCells that adds the supplied cells to the
\* stored ones
placeOneMerges(table, u) ==
    LET existing == existingChunk(table, u.chunkX, u.chunkY)
    IN IF Len(u.cells) = 0
       THEN IF existing # 0 THEN RemoveAt(table, existing) ELSE table
       ELSE IF existing # 0
       THEN [table EXCEPT ![existing].cells = @ \o u.cells]
       ELSE Append(table, [chunkX |-> u.chunkX, chunkY |-> u.chunkY, cells |-> u.cells])

\* one pass of the loop of placeCells that does not look for the record of
\* the chunk
placeOneInserts(table, u) ==
    IF Len(u.cells) = 0 THEN table
    ELSE Append(table, [chunkX |-> u.chunkX, chunkY |-> u.chunkY, cells |-> u.cells])

\* one pass of the loop of placeCells
placeOne(table, u) ==
    LET existing == existingChunk(table, u.chunkX, u.chunkY)
    IN IF Len(u.cells) = 0
       THEN IF existing # 0 THEN RemoveAt(table, existing) ELSE table
       ELSE IF existing # 0
       THEN [table EXCEPT ![existing].cells = u.cells]
       ELSE Append(table, [chunkX |-> u.chunkX, chunkY |-> u.chunkY, cells |-> u.cells])

RECURSIVE placeAll(_, _)
placeAll(table, chunkUpdates) ==
    IF Len(chunkUpdates) = 0 THEN table
    ELSE placeAll(placeOne(table, Head(chunkUpdates)), Tail(chunkUpdates))

\* an initialisation that inserts a record without looking for one
initializedStateInserts(state) == Append(state, [generation |-> 0, isRunning |-> FALSE])

\* the gameState table after initializeGameState: as it was when it has a
\* record, with a new record otherwise
initializedState(state) ==
    IF Len(state) > 0 THEN state
    ELSE Append(state, [generation |-> 0, isRunning |-> FALSE])

\* initializeGameState; before holds the table it read and the record it
\* returned: the existing one, or the one db.get reads back after the insert
initializeGameState ==
    /\ gameState' = initializedState(gameState)
    /\ op' = "initializeGameState"
    /\ before' = <<gameState,
                   IF Len(gameState) > 0 THEN gameState[1]
                   ELSE initializedState(gameState)[Len(gameState) + 1]>>
    /\ UNCHANGED <<uiVars, codecVars, txns, gameChunks, chunks, worlds, steps>>

\* a commit that lets the transactions in progress keep their stale reads
restartNone(running) == running

\* a transaction in progress whose reads a commit has made stale runs again
\* from its start
restartAll(running) ==
    [i \in 1..Len(running) |-> [phase |-> "begin", chunks |-> <<>>, local |-> <<>>]]

placeCells(chunkUpdates) ==
    /\ gameChunks' = placeAll(gameChunks, chunkUpdates)
    /\ txns' = restartAll(txns)
    /\ op' = "placeCells"
    /\ before' = <<gameChunks, gameState, chunkUpdates>>
    /\ UNCHANGED <<uiVars, codecVars, gameState, chunks, worlds, steps>>

\* a reset that leaves the simulation running
clearedStateStillRunning(state) ==
    IF Len(state) > 0 THEN [state EXCEPT ![1].generation = 0] ELSE state

\* the patch clearWorld makes to the gameState record, if there is one
clearedState(state) ==
    IF Len(state) > 0
    THEN [state EXCEPT ![1].generation = 0, ![1].isRunning = FALSE]
    ELSE state

clearWorld ==
    /\ gameChunks' = <<>>
    /\ gameState' = clearedState(gameState)
    /\ steps' = 0
    /\ op' = "clearWorld"
    /\ before' = <<gameChunks, gameState>>
    /\ UNCHANGED <<uiVars, codecVars, txns, chunks, worlds>>

stepSimulation ==
    /\ steps < MaxGen
    /\ gameChunks' = steppedChunks(gameChunks)
    /\ gameState' = IF Len(gameState) > 0
                    THEN [gameState EXCEPT ![1].generation = @ + 1]
                    ELSE gameState
    /\ steps' = steps + 1
    /\ op' = "stepSimulation"
    /\ before' = <<gameChunks, gameState>>
    /\ UNCHANGED <<uiVars, codecVars, txns, chunks, worlds>>

\* the packed codes a client sends: local cells (63, 0), (0, 0) and (1, 0),
\* and a code whose x field has its sign bit set (decoded as local (-1, 1))
ClientCodes ==
    {packLocal(63, 0), packLocal(0, 0), packLocal(1, 0), packLocal(-1, 1)}

RECURSIVE SeqsUpTo(_, _)
SeqsUpTo(S, n) ==
    IF n = 0 THEN {<<>>}
    ELSE LET shorter == SeqsUpTo(S, n - 1)
         IN shorter \cup {Append(q, e) : q \in {r \in shorter : Len(r) = n - 1}, e \in S}

ClientLists == SeqsUpTo(ClientCodes, MaxListLen)

ClientUpdates ==
    {[chunkX |-> cx, chunkY |-> 0, cells |-> l] : cx \in {-1, 0}, l \in ClientLists}

\* the tables that one placeCells call with at most two chunk updates builds
\* from the empty table
StoredTables ==
    {placeAll(<<>>, <<u, v>>) : u \in ClientUpdates, v \in ClientUpdates}

InitServer ==
    /\ gameChunks \in StoredTables
    /\ gameState = <<>>
    /\ chunks = <<>>
    /\ worlds = <<>>
    /\ steps = 0
    /\ txns = <<>>
    /\ UiIdle
    /\ codecKey = <<>>
    /\ decoded = <<>>
    /\ op = "placeCells"
    /\ before = <<>>

NextServer ==
    \/ initializeGameState
    \/ stepSimulation

SpecServer == InitServer /\ [][NextServer]_vars

-----------------------------------------------------------------------------
(* The worlds module: the tables worlds and chunks.  A world's id is its
   position in the table; a mutation is a transaction, so one that throws
   leaves the tables as they were.  Patching or deleting a document that is
   no longer there throws. *)

worldsCreateWorld ==
    /\ Len(worlds) < MaxWorlds
    /\ worlds' = Append(worlds, [generation |-> 0, isRunning |-> FALSE])
    /\ op' = "createWorld"
    /\ before' = <<>>
    /\ UNCHANGED <<uiVars, codecVars, txns, gameChunks, gameState, chunks, steps>>

\* the first record of the by_world_chunk index for this world and chunk, 0 if
\* none
existingWorldChunk(table, worldId, chunkX, chunkY) ==
    LET idx == {i \in 1..Len(table) :
                    /\ table[i].worldId = worldId
                    /\ table[i].chunkX = chunkX
                    /\ table[i].chunkY = chunkY}
    IN IF idx = {} THEN 0 ELSE CHOOSE i \in idx : \A j \in idx : i <= j

updateChunk(worldId, chunkX, chunkY, cells) ==
    LET existing == existingWorldChunk(chunks, worldId, chunkX, chunkY)
    IN /\ chunks' =
            IF Len(cells) = 0
            THEN IF existing # 0 THEN RemoveAt(chunks, existing) ELSE chunks
            ELSE IF existing # 0
            THEN [chunks EXCEPT ![existing].cells = cells]
            ELSE Append(chunks, [worldId |-> worldId, chunkX |-> chunkX,
                                 chunkY |-> chunkY, cells |-> cells])
       /\ op' = "updateChunk"
       /\ before' = <<IF existing # 0 THEN <<chunks[existing]>> ELSE <<>>,
                      [worldId |-> worldId, chunkX |-> chunkX,
                       chunkY |-> chunkY, cells |-> cells]>>
       /\ UNCHANGED <<uiVars, codecVars, txns, gameChunks, gameState, worlds, steps>>

\* the records of one world, in the order of the by_world index
existingChunks(table, worldId) ==
    LET OfWorld(r) == r.worldId = worldId IN SelectSeq(table, OfWorld)

\* existingMap.get(key): the map is filled in the order of the by_world index,
\* a later record of the same key replacing an earlier one; 0 if none
existingMapGet(table, worldId, chunkKeyStr) ==
    LET idx == {i \in 1..Len(table) :
                    /\ table[i].worldId = worldId
                    /\ cellKey(table[i].chunkX, table[i].chunkY) = chunkKeyStr}
    IN IF idx = {} THEN 0 ELSE CHOOSE i \in idx : \A j \in idx : j <= i

\* the loop over args.chunks: the new cells of the records read, the records
\* deleted, the records inserted, and whether a patch or delete threw
RECURSIVE applyChunks(_, _, _, _)
applyChunks(table, worldId, chunkList, st) ==
    IF Len(chunkList) = 0 \/ st.threw THEN st
    ELSE LET chunkData == Head(chunkList)
             existing == existingMapGet(table, worldId,
                                        cellKey(chunkData.chunkX, chunkData.chunkY))
             next ==
                IF Len(chunkData.cells) = 0
                THEN IF existing # 0
                     THEN IF existing \in st.deleted
                          THEN [st EXCEPT !.threw = TRUE]
                          ELSE [st EXCEPT !.deleted = @ \cup {existing}]
                     ELSE st
                ELSE IF existing # 0
                THEN IF existing \in st.deleted
                     THEN [st EXCEPT !.threw = TRUE]
                     ELSE [st EXCEPT !.cells[existing] = chunkData.cells]
                ELSE [st EXCEPT !.inserted =
                        Append(@, [worldId |-> worldId, chunkX |-> chunkData.chunkX,
                                   chunkY |-> chunkData.chunkY,
                                   cells |-> chunkData.cells])]
         IN applyChunks(table, worldId, Tail(chunkList), next)

RECURSIVE WithoutIndices(_, _)
WithoutIndices(table, dead) ==
    IF dead = {} THEN table
    ELSE LET i == CHOOSE i \in dead : \A j \in dead : j <= i
         IN WithoutIndices(RemoveAt(table, i), dead \ {i})

\* the chunks table after updateChunks, and whether the call threw
updatedChunksTable(table, worldId, chunkList) ==
    LET start == [cells |-> [i \in 1..Len(table) |-> table[i].cells],
                  deleted |-> {}, inserted |-> <<>>, threw |-> FALSE]
        st == applyChunks(table, worldId, chunkList, start)
        updatedChunks == {cellKey(chunkList[i].chunkX, chunkList[i].chunkY) :
                            i \in 1..Len(chunkList)}
        stale == {i \in 1..Len(table) :
                    /\ table[i].worldId = worldId
                    /\ cellKey(table[i].chunkX, table[i].chunkY) \notin updatedChunks
                    /\ i = existingMapGet(table, worldId,
                                          cellKey(table[i].chunkX, table[i].chunkY))}
        patched == [i \in 1..Len(table) |-> [table[i] EXCEPT !.cells = st.cells[i]]]
    IN [threw |-> st.threw,
        table |-> WithoutIndices(patched, st.deleted \cup stale) \o st.inserted]

updateChunks(worldId, chunkList, newGeneration) ==
    /\ LET result == updatedChunksTable(chunks, worldId, chunkList)
       IN IF worldId \notin 1..Len(worlds) \/ result.threw
          THEN /\ op' = "updateChunks threw"
               /\ UNCHANGED <<worlds, chunks>>
          ELSE /\ op' = "updateChunks"
               /\ worlds' = [worlds EXCEPT ![worldId].generation = newGeneration]
               /\ chunks' = result.table
    /\ before' = <<chunks, chunkList, worldId, newGeneration>>
    /\ UNCHANGED <<uiVars, codecVars, txns, gameChunks, gameState, steps>>

\* the chunk updates of the store specification: chunk (0, 0) with no cell or
\* with the cell (0, 0), chunk (-1, 0) with the cell (63, 0)
StoreEmpty == [chunkX |-> 0, chunkY |-> 0, cells |-> <<>>]
StoreOrigin == [chunkX |-> 0, chunkY |-> 0, cells |-> <<packLocal(0, 0)>>]
StoreLeft == [chunkX |-> -1, chunkY |-> 0, cells |-> <<packLocal(63, 0)>>]

\* the updates of updateChunk
StoreUpdates == {StoreEmpty, StoreOrigin}

\* the chunk lists of updateChunks: the other chunk, no cell, and no cell
\* followed by cells for the same chunk
StoreLists == {<<StoreLeft>>, <<StoreEmpty>>, <<StoreEmpty, StoreOrigin>>}

\* the placeCells calls: a blinker across the chunk border, and the removal
\* of either chunk
StorePlaceCalls ==
    {<<[chunkX |-> -1, chunkY |-> 0, cells |-> <<packLocal(63, 0)>>],
       [chunkX |-> 0, chunkY |-> 0, cells |-> <<packLocal(0, 0), packLocal(1, 0)>>]>>,
     <<[chunkX |-> 0, chunkY |-> 0, cells |-> <<>>]>>,
     <<[chunkX |-> -1, chunkY |-> 0, cells |-> <<>>]>>}

InitStore ==
    /\ ServerIdle
    /\ UiIdle
    /\ codecKey = <<>>
    /\ decoded = <<>>
    /\ op = "init"
    /\ before = <<>>

NextStore ==
    \/ \E chunkUpdates \in StorePlaceCalls : placeCells(chunkUpdates)
    \/ stepSimulation
    \/ clearWorld
    \/ worldsCreateWorld
    \/ \E worldId \in 1..Len(worlds), u \in StoreUpdates :
            updateChunk(worldId, u.chunkX, u.chunkY, u.cells)
    \/ \E worldId \in 1..Len(worlds), chunkList \in StoreLists :
            updateChunks(worldId, chunkList, 1)

SpecStore == InitStore /\ [][NextStore]_vars

\* the chunk updates of the worlds specification: the updates of the store
\* specification, and chunk (0, 0) with the cell (1, 0)
StoreRight == [chunkX |-> 0, chunkY |-> 0, cells |-> <<packLocal(1, 0)>>]

WorldsUpdates == {StoreEmpty, StoreOrigin, StoreRight, StoreLeft}

\* every chunk list of at most MaxBatch updates, lists that name a chunk
\* twice included
WorldsLists == SeqsUpTo(WorldsUpdates, MaxBatch)

NextWorlds ==
    \/ worldsCreateWorld
    \/ \E worldId \in 1..Len(worlds), u \in WorldsUpdates :
            updateChunk(worldId, u.chunkX, u.chunkY, u.cells)
    \/ \E worldId \in 1..Len(worlds), chunkList \in WorldsLists, g \in 1..MaxGen :
            updateChunks(worldId, chunkList, g)

SpecWorlds == InitStore /\ [][NextWorlds]_vars

-----------------------------------------------------------------------------
(* The cron job and the queries.  A mutation is a transaction: it reads and
   writes its own view of the tables, and its writes reach the tables when
   it commits.  A transaction whose reads are stale when it commits runs
   again; the model restarts it at the commit that makes them stale.  The
   cron scheduler runs one execution of a job at a time. *)

\* crons.interval: the next run starts when no run is in progress
cronMayStart(running) == Len(running) = 0

cronTick ==
    /\ cronMayStart(txns)
    /\ steps < MaxGen
    /\ txns' = Append(txns, [phase |-> "begin", chunks |-> <<>>, local |-> <<>>])
    /\ op' = "cron"
    /\ before' = <<>>
    /\ UNCHANGED <<uiVars, codecVars, gameChunks, gameState, chunks, worlds, steps>>

\* tickGameWorld reads gameState; stepSimulation collects the chunks
tickRead(i) ==
    /\ txns[i].phase = "begin"
    /\ txns' = IF Len(gameState) > 0 /\ gameState[1].isRunning
               THEN [txns EXCEPT ![i] = [phase |-> "read", chunks |-> gameChunks,
                                         local |-> gameChunks]]
               ELSE RemoveAt(txns, i)
    /\ op' = "tickGameWorld"
    /\ before' = <<>>
    /\ UNCHANGED <<uiVars, codecVars, gameChunks, gameState, chunks, worlds, steps>>

\* the loop that deletes the old chunks, in the transaction's view
stepDeleteOld(i) ==
    /\ txns[i].phase = "read"
    /\ txns' = [txns EXCEPT ![i].phase = "deleted", ![i].local = <<>>]
    /\ op' = "stepSimulation deletes"
    /\ before' = <<>>
    /\ UNCHANGED <<uiVars, codecVars, gameChunks, gameState, chunks, worlds, steps>>

\* the loop that inserts the new chunks, in the transaction's view
stepInsertNew(i) ==
    /\ txns[i].phase = "deleted"
    /\ txns' = [txns EXCEPT ![i].phase = "inserted",
                            ![i].local = @ \o steppedChunks(txns[i].chunks)]
    /\ op' = "stepSimulation inserts"
    /\ before' = <<>>
    /\ UNCHANGED <<uiVars, codecVars, gameChunks, gameState, chunks, worlds, steps>>

\* the generation is patched and the transaction commits
stepCommit(i) ==
    /\ txns[i].phase = "inserted"
    /\ gameChunks' = txns[i].local
    /\ gameState' = [gameState EXCEPT ![1].generation = @ + 1]
    /\ steps' = steps + 1
    /\ txns' = restartAll(RemoveAt(txns, i))
    /\ op' = "stepSimulation"
    /\ before' = <<txns[i].chunks, gameState>>
    /\ UNCHANGED <<uiVars, codecVars, chunks, worlds>>

\* a patch that starts the simulation whatever it was doing
toggledStateOn(state) == [state EXCEPT ![1].isRunning = TRUE]

\* the patch toggleSimulation makes to the gameState record
toggledState(state) == [state EXCEPT ![1].isRunning = ~@]

\* toggleSimulation; before holds the gameState it read and what the call
\* gave back: the returned value, or the message of the error it threw
toggleSimulation ==
    /\ IF Len(gameState) = 0
       THEN /\ op' = "toggleSimulation threw"
            /\ before' = <<gameState, "Game state not found">>
            /\ UNCHANGED <<gameState, txns>>
       ELSE /\ op' = "toggleSimulation"
            /\ gameState' = toggledState(gameState)
            /\ before' = <<gameState, ~gameState[1].isRunning>>
            /\ txns' = restartAll(txns)
    /\ UNCHANGED <<uiVars, codecVars, gameChunks, chunks, worlds, steps>>

\* a table that holds uncommitted writes of a transaction in progress
visibleTableDirty(table, running) ==
    IF Len(running) > 0 /\ running[1].phase \in {"deleted", "inserted"}
    THEN running[1].local
    ELSE table

\* the table a query reads: the committed records
visibleTable(table, running) == table

\* the records in the order of the by_chunk index: chunkX, chunkY, creation
byChunk(table) ==
    LET Less(i, j) ==
            \/ table[i].chunkX < table[j].chunkX
            \/ /\ table[i].chunkX = table[j].chunkX
               /\ \/ table[i].chunkY < table[j].chunkY
                  \/ table[i].chunkY = table[j].chunkY /\ i < j
        rank(i) == Cardinality({j \in 1..Len(table) : Less(j, i)}) + 1
    IN [k \in 1..Len(table) |-> table[CHOOSE i \in 1..Len(table) : rank(i) = k]]

\* the records of a table that getChunks returns for a viewport
chunksInView(table, view) ==
    LET InView(r) ==
            /\ r.chunkX >= view.minChunkX /\ r.chunkX <= view.maxChunkX
            /\ r.chunkY >= view.minChunkY /\ r.chunkY <= view.maxChunkY
    IN SelectSeq(byChunk(table), InView)

getChunks(view) ==
    /\ op' = "getChunks"
    /\ before' = <<view, chunksInView(visibleTable(gameChunks, txns), view)>>
    /\ UNCHANGED <<uiVars, codecVars, serverVars>>

\* the viewports of the cron specification: both chunk columns, and the
\* column x = 0 with the row above
CronViews ==
    {[minChunkX |-> -1, maxChunkX |-> 0, minChunkY |-> -1, maxChunkY |-> 0],
     [minChunkX |-> 0, maxChunkX |-> 0, minChunkY |-> -1, maxChunkY |-> 0]}

NextCron ==
    \/ initializeGameState
    \/ toggleSimulation
    \/ \E chunkUpdates \in StorePlaceCalls : placeCells(chunkUpdates)
    \/ cronTick
    \/ \E i \in 1..Len(txns) : tickRead(i)
    \/ \E i \in 1..Len(txns) : stepDeleteOld(i)
    \/ \E i \in 1..Len(txns) : stepInsertNew(i)
    \/ \E i \in 1..Len(txns) : stepCommit(i)
    \/ \E view \in CronViews : getChunks(view)

SpecCron == InitStore /\ [][NextCron]_vars

\* the mutations of the shared world, each run to its end before the next;
\* the placeCells calls are those of the store, and one that names chunk
\* (0, 0) twice
ControlPlaceCalls ==
    StorePlaceCalls \cup
    {<<[chunkX |-> 0, chunkY |-> 0, cells |-> <<packLocal(0, 0)>>],
       [chunkX |-> 0, chunkY |-> 0, cells |-> <<packLocal(1, 0), packLocal(0, 0)>>]>>}

NextControl ==
    \/ initializeGameState
    \/ toggleSimulation
    \/ \E chunkUpdates \in ControlPlaceCalls : placeCells(chunkUpdates)
    \/ stepSimulation
    \/ clearWorld

SpecControl == InitStore /\ [][NextControl]_vars

-----------------------------------------------------------------------------
(* The views as holders of Set objects: the terminal's interactiveMode, the
   Solid views with string keys and with bit-packed keys, and the SVG view.
   A reference names an object of the heap; a view's world is a reference. *)

\* a new Set is made and the view's world refers to it
installFresh(h, ref, members) == [heap |-> Append(h, members), ref |-> Len(h) + 1]

\* the members of the Set the view's world refers to are changed
installInPlace(h, ref, members) == [heap |-> [h EXCEPT ![ref] = members], ref |-> ref]

\* a tick that edits the Set it read
tickInPlace(h, ref, members) == installInPlace(h, ref, members)

\* world = nextGeneration(world); setWorld(nextGeneration(world()))
tickInstalled(h, ref, members) == installFresh(h, ref, members)

\* a toggle that only ever adds the key
toggledAddOnly(members, k) == members \cup {k}

\* if (world.has(key)) world.delete(key) else world.add(key)
toggled(members, k) == IF k \in members THEN members \ {k} ELSE members \cup {k}

viewKey(view, x, y) == IF view = "packed" THEN packedCellKey(x, y) ELSE cellKey(x, y)

viewNextGeneration(view, members) ==
    IF view = "packed" THEN packedNextGeneration(members) ELSE nextGeneration(members)

\* what a toggle read: the reference and the members of the world, the cell,
\* and the members before the previous toggle when that was of the same cell
\* and the world is still the Set it installed; a toggle appends the
\* reference of the Set it installed
toggleRead(x, y) ==
    <<worldRef, heap[worldRef], x, y,
      IF op = "toggleCell" /\ before[3] = x /\ before[4] = y /\ before[6] = worldRef
      THEN <<before[2]>> ELSE <<>> >>

-----------------------------------------------------------------------------
(* The pattern catalogue and pattern placement of the Solid views *)

\* const patterns: Pattern[]
patterns == <<
    [name |-> "Single Cell",
     cells |->
    << <<0, 0>> >>,
     description |-> "Toggle individual cells"],
    [name |-> "Glider",
     cells |->
    << <<1, 0>>, <<2, 1>>, <<0, 2>>, <<1, 2>>, <<2, 2>> >>,
     description |-> "Moves diagonally across the grid"],
    [name |-> "Blinker",
     cells |->
    << <<0, 0>>, <<1, 0>>, <<2, 0>> >>,
     description |-> "Oscillates between horizontal and vertical"],
    [name |-> "Block",
     cells |->
    << <<0, 0>>, <<1, 0>>, <<0, 1>>, <<1, 1>> >>,
     description |-> "Still life - never changes"],
    [name |-> "Beacon",
     cells |->
    << <<0, 0>>, <<1, 0>>, <<0, 1>>, <<3, 2>>, <<2, 3>>, <<3, 3>> >>,
     description |-> "Oscillates with period 2"],
    [name |-> "Toad",
     cells |->
    << <<1, 0>>, <<2, 0>>, <<3, 0>>, <<0, 1>>, <<1, 1>>, <<2, 1>> >>,
     description |-> "Oscillates with period 2"],
    [name |-> "LWSS",
     cells |->
    << <<1, 0>>, <<4, 0>>, <<0, 1>>, <<0, 2>>, <<4, 2>>, <<0, 3>>, <<1, 3>>,
       <<2, 3>>, <<3, 3>> >>,
     description |-> "Lightweight spaceship - travels horizontally"],
    [name |-> "Pulsar",
     cells |->
    << <<2, 0>>, <<3, 0>>, <<4, 0>>, <<8, 0>>, <<9, 0>>, <<10, 0>>, <<0, 2>>,
       <<5, 2>>, <<7, 2>>, <<12, 2>>, <<0, 3>>, <<5, 3>>, <<7, 3>>,
       <<12, 3>>, <<0, 4>>, <<5, 4>>, <<7, 4>>, <<12, 4>>, <<2, 5>>,
       <<3, 5>>, <<4, 5>>, <<8, 5>>, <<9, 5>>, <<10, 5>>, <<2, 7>>, <<3, 7>>,
       <<4, 7>>, <<8, 7>>, <<9, 7>>, <<10, 7>>, <<0, 8>>, <<5, 8>>, <<7, 8>>,
       <<12, 8>>, <<0, 9>>, <<5, 9>>, <<7, 9>>, <<12, 9>>, <<0, 10>>,
       <<5, 10>>, <<7, 10>>, <<12, 10>>, <<2, 12>>, <<3, 12>>, <<4, 12>>,
       <<8, 12>>, <<9, 12>>, <<10, 12>> >>,
     description |-> "Large oscillator with period 3"] >>

\* Math.min(...xs) and Math.max(...xs) of a non-empty list
MathMin(xs) == CHOOSE m \in Range(xs) : \A n \in Range(xs) : m <= n
MathMax(xs) == CHOOSE m \in Range(xs) : \A n \in Range(xs) : m >= n

\* a placement that replaces the world by the shifted pattern
placePatternCleared(view, w, cells, centerX, centerY) ==
    LET xs == [i \in DOMAIN cells |-> cells[i][1]]
        ys == [i \in DOMAIN cells |-> cells[i][2]]
        offsetX == centerX - ((MathMin(xs) + MathMax(xs)) \div 2)
        offsetY == centerY - ((MathMin(ys) + MathMax(ys)) \div 2)
    IN {viewKey(view, cells[i][1] + offsetX, cells[i][2] + offsetY) :
            i \in DOMAIN cells}

\* placePattern with the cellKey of the view: a copy of the world with the
\* key of every pattern cell, shifted by the offset, added
placePattern(view, w, cells, centerX, centerY) ==
    LET xs == [i \in DOMAIN cells |-> cells[i][1]]
        ys == [i \in DOMAIN cells |-> cells[i][2]]
        offsetX == centerX - ((MathMin(xs) + MathMax(xs)) \div 2)
        offsetY == centerY - ((MathMin(ys) + MathMax(ys)) \div 2)
    IN w \cup {viewKey(view, cells[i][1] + offsetX, cells[i][2] + offsetY) :
                   i \in DOMAIN cells}

\* a tick that leaves the counter as it is
tickedGenerationKept(g) == g

\* generation++; setGeneration((prev) => prev + 1)
tickedGeneration(g) == g + 1

\* createCenteredPatterns: a glider and a blinker placed from the centre of
\* the viewport
createCenteredPatterns(view, viewportWidth, viewportHeight) ==
    LET centerX == viewportWidth \div 2
        centerY == viewportHeight \div 2
        gliderCells == {<<centerX + 1, centerY + 0>>, <<centerX + 2, centerY + 1>>,
                        <<centerX + 0, centerY + 2>>, <<centerX + 1, centerY + 2>>,
                        <<centerX + 2, centerY + 2>>}
        blinkerCells == {<<centerX + 5, centerY + 5>>, <<centerX + 6, centerY + 5>>,
                         <<centerX + 7, centerY + 5>>}
    IN {viewKey(view, c[1], c[2]) : c \in gliderCells}
       \cup {viewKey(view, c[1], c[2]) : c \in blinkerCells}

\* a view whose effect leaves an empty world as it is
worldEffectNone(view, r, viewport) == r

\* the effect on world() of the Solid views with a pattern catalogue: it
\* runs when setWorld has installed a Set, inside the handler that called
\* setWorld, and installs the centred patterns when the Set is empty
worldEffect(view, r, viewport) ==
    IF view \in {"solid", "packed"} /\ r.heap[r.ref] = {}
    THEN installFresh(r.heap, r.ref,
                      createCenteredPatterns(view, viewport.width, viewport.height))
    ELSE r

\* tick of the terminal and of the Solid views (the SVG view has no stepper);
\* before holds the world it read and the reference of the Set it installed
heapTick ==
    /\ ui.view \in {"terminal", "solid", "packed", "plain"}
    /\ generation < MaxGen
    /\ Len(heap) < MaxHeap
    /\ LET set == tickInstalled(heap, worldRef,
                                viewNextGeneration(ui.view, heap[worldRef]))
           r == worldEffect(ui.view, set, ui.viewport)
       IN /\ heap' = r.heap /\ worldRef' = r.ref
          /\ before' = <<worldRef, heap[worldRef], set.ref>>
    /\ generation' = tickedGeneration(generation)
    /\ op' = "tick"
    /\ UNCHANGED <<world, packedWorld, ui, serverVars, codecVars>>

\* interactiveMode.toggleCell; events counts the key presses of the session
terminalToggleCell(x, y) ==
    /\ ui.view = "terminal"
    /\ ui.events < MaxEvents
    /\ ui' = [ui EXCEPT !.events = @ + 1]
    /\ LET r == installInPlace(heap, worldRef,
                               toggled(heap[worldRef], viewKey(ui.view, x, y)))
       IN heap' = r.heap /\ worldRef' = r.ref
    /\ op' = "toggleCell"
    /\ before' = toggleRead(x, y) \o <<worldRef>>
    /\ UNCHANGED <<world, packedWorld, generation, serverVars, codecVars>>

\* toggleCell of the Solid views: nothing while dragging; in single placement
\* mode a copy of the world with the key toggled, in pattern placement mode
\* placePattern of the selected pattern
solidToggleCell(x, y) ==
    /\ ui.view \in {"solid", "packed", "plain"}
    /\ IF ui.isMouseDown
       THEN /\ op' = "toggleCell skipped"
            /\ before' = <<>>
            /\ UNCHANGED <<heap, worldRef>>
       ELSE /\ Len(heap) < MaxHeap
            /\ IF ui.placementMode = "single"
               THEN /\ LET set == installFresh(heap, worldRef,
                                    toggled(heap[worldRef], viewKey(ui.view, x, y)))
                           r == worldEffect(ui.view, set, ui.viewport)
                       IN /\ heap' = r.heap /\ worldRef' = r.ref
                          /\ before' = toggleRead(x, y) \o <<set.ref>>
                    /\ op' = "toggleCell"
               ELSE /\ LET r == worldEffect(ui.view,
                                    installFresh(heap, worldRef,
                                        placePattern(ui.view, heap[worldRef],
                                                     ui.selectedPattern.cells, x, y)),
                                    ui.viewport)
                       IN heap' = r.heap /\ worldRef' = r.ref
                    /\ op' = "placePattern"
                    /\ before' = <<worldRef, heap[worldRef], x, y, ui.selectedPattern>>
    /\ UNCHANGED <<world, packedWorld, generation, ui, serverVars, codecVars>>

\* the mode selector of the Solid views
setPlacementMode(mode) ==
    /\ ui.view \in {"solid", "packed"}
    /\ ui.placementMode # mode
    /\ ui' = [ui EXCEPT !.placementMode = mode]
    /\ op' = "setPlacementMode"
    /\ before' = <<>>
    /\ UNCHANGED <<world, packedWorld, generation, heap, worldRef, serverVars, codecVars>>

\* the pattern selector: patterns.find by name, then setSelectedPattern
setSelectedPattern(name) ==
    /\ ui.view \in {"solid", "packed"}
    /\ ui.selectedPattern.name # name
    /\ \E i \in DOMAIN patterns : patterns[i].name = name
    /\ ui' = [ui EXCEPT !.selectedPattern =
                  patterns[CHOOSE i \in DOMAIN patterns : patterns[i].name = name]]
    /\ op' = "setSelectedPattern"
    /\ before' = <<>>
    /\ UNCHANGED <<world, packedWorld, generation, heap, worldRef, serverVars, codecVars>>

\* updateViewportSize on a resize of the window: the viewport takes the
\* width and height computed from the window
updateViewportSize(width, height) ==
    /\ ui.view \in {"solid", "packed"}
    /\ <<ui.viewport.width, ui.viewport.height>> # <<width, height>>
    /\ ui' = [ui EXCEPT !.viewport.width = width, !.viewport.height = height]
    /\ op' = "updateViewportSize"
    /\ before' = <<>>
    /\ UNCHANGED <<world, packedWorld, generation, heap, worldRef, serverVars, codecVars>>

\* handleMouseDown of the Solid views: setIsDragging(true)
handleMouseDown ==
    /\ ui.view \in {"solid", "packed"}
    /\ ui' = [ui EXCEPT !.isMouseDown = TRUE]
    /\ op' = "handleMouseDown"
    /\ before' = <<>>
    /\ UNCHANGED <<world, packedWorld, generation, heap, worldRef, serverVars, codecVars>>

handleMouseUp ==
    /\ ui.view \in {"solid", "packed", "svg"}
    /\ ui' = [ui EXCEPT !.isMouseDown = FALSE, !.lastToggledCell = <<>>]
    /\ op' = "handleMouseUp"
    /\ before' = <<>>
    /\ UNCHANGED <<world, packedWorld, generation, heap, worldRef, serverVars, codecVars>>

\* a drag that never recognises the cell it toggled last
sameCellNever(mouse, k) == FALSE

\* isMouseDown() && lastToggledCell() === key
sameCellDuringDrag(mouse, k) == mouse.isMouseDown /\ mouse.lastToggledCell = k

\* toggleCell of the SVG view, called by the handler of event with the mouse
\* state in mouse; before ends with the event, after the cell when the
\* toggle is skipped
svgToggleCell(x, y, mouse, event) ==
    LET k == cellKey(x, y)
    IN IF sameCellDuringDrag(mouse, k)
       THEN /\ op' = "toggleCell skipped"
            /\ before' = <<x, y, event>>
            /\ ui' = mouse
            /\ UNCHANGED <<heap, worldRef>>
       ELSE /\ Len(heap) < MaxHeap
            /\ LET r == installFresh(heap, worldRef, toggled(heap[worldRef], k))
               IN /\ heap' = r.heap /\ worldRef' = r.ref
                  /\ before' = toggleRead(x, y) \o <<r.ref, event>>
            /\ ui' = [mouse EXCEPT !.lastToggledCell = k]
            /\ op' = "toggleCell"

\* handleSVGClick without the shift key
handleSVGClick(x, y) ==
    /\ ui.view = "svg"
    /\ svgToggleCell(x, y, [ui EXCEPT !.isMouseDown = TRUE, !.lastToggledCell = <<>>],
                     "mousedown")
    /\ UNCHANGED <<world, packedWorld, generation, serverVars, codecVars>>

handleSVGMouseMove(x, y) ==
    /\ ui.view = "svg"
    /\ ui.isMouseDown
    /\ svgToggleCell(x, y, ui, "mousemove")
    /\ UNCHANGED <<world, packedWorld, generation, serverVars, codecVars>>

HeapViews == {"terminal", "solid", "packed", "svg"}

\* the cells a view is clicked on
HeapCells == {<<0, 0>>, <<0, -1>>}

\* the pattern the selector is set to
HeapPatterns == {"Blinker"}

\* the initial worlds: nothing, one cell, a row of three
HeapWorlds == {{}, {<<0, 0>>}, {<<-1, 0>>, <<0, 0>>, <<1, 0>>}}

\* the viewport sizes: the initial one, and one with an odd width and height
HeapSizes == {<<80, 40>>, <<41, 21>>}

\* the world of a view once it is mounted: the Solid views with a pattern
\* catalogue have filled an empty world with the centred patterns
mountedWorld(view, members) ==
    worldEffect(view, [heap |-> <<members>>, ref |-> 1],
                [width |-> 80, height |-> 40]).heap

InitHeap ==
    /\ \E view \in HeapViews, cs \in HeapWorlds :
          /\ ui = [view |-> view, isMouseDown |-> FALSE, lastToggledCell |-> <<>>,
                   events |-> 0, placementMode |-> "single",
                   selectedPattern |-> patterns[1],
                   viewport |-> [width |-> 80, height |-> 40]]
          /\ heap = mountedWorld(view, {viewKey(view, c[1], c[2]) : c \in cs})
    /\ worldRef = Len(heap)
    /\ world = {}
    /\ packedWorld = {}
    /\ generation = 0
    /\ ServerIdle
    /\ codecKey = <<>>
    /\ decoded = <<>>
    /\ op = "init"
    /\ before = <<>>

NextHeap ==
    \/ heapTick
    \/ \E c \in HeapCells : terminalToggleCell(c[1], c[2])
    \/ \E c \in HeapCells : solidToggleCell(c[1], c[2])
    \/ \E mode \in {"single", "pattern"} : setPlacementMode(mode)
    \/ \E name \in HeapPatterns : setSelectedPattern(name)
    \/ \E size \in HeapSizes : updateViewportSize(size[1], size[2])
    \/ handleMouseDown
    \/ handleMouseUp
    \/ \E c \in HeapCells : handleSVGClick(c[1], c[2])
    \/ \E c \in HeapCells : handleSVGMouseMove(c[1], c[2])

SpecHeap == InitHeap /\ [][NextHeap]_vars

-----------------------------------------------------------------------------
(* Sessions of the views that step: the terminal's interactiveMode with its
   viewport, zoom and cursor, and the Solid views (string keys with the
   pattern catalogue, bit-packed keys, and the plain string-key view) with
   their tick timer.  The zoom is counted in eighths: 8 is zoom 1.0. *)

MaxKeys == 3

ZoomUnit == 8
ZoomMin == 1
ZoomMax == 64
TICK_INTERVAL == 500

createViewport(x, y, width, height, zoom) ==
    [x |-> x, y |-> y, width |-> width, height |-> height, zoom |-> zoom]

\* floor(x + width * (1 / zoom) - 1) for an integer x
getWorldBounds(viewport) ==
    [minX |-> viewport.x,
     maxX |-> viewport.x + FloorDiv(viewport.width * ZoomUnit, viewport.zoom) - 1,
     minY |-> viewport.y,
     maxY |-> viewport.y + FloorDiv(viewport.height * ZoomUnit, viewport.zoom) - 1]

isCursorInViewport(cursor, viewport) ==
    LET worldBounds == getWorldBounds(viewport)
    IN /\ cursor.x >= worldBounds.minX
       /\ cursor.x <= worldBounds.maxX
       /\ cursor.y >= worldBounds.minY
       /\ cursor.y <= worldBounds.maxY

\* a cursor placed on the corner of the viewport's world bounds
cornerCursorInViewport(viewport) == [x |-> viewport.x - 1, y |-> viewport.y - 1]

centerCursorInViewport(viewport) ==
    LET worldBounds == getWorldBounds(viewport)
    IN [x |-> FloorDiv(worldBounds.minX + worldBounds.maxX, 2),
        y |-> FloorDiv(worldBounds.minY + worldBounds.maxY, 2)]

panViewport(viewport, dx, dy) ==
    [viewport EXCEPT !.x = @ + dx, !.y = @ + dy]

\* zoom >= 1.0 ? n : Math.floor(n / zoom)
zoomedStep(viewport, n) ==
    IF viewport.zoom >= ZoomUnit THEN n ELSE FloorDiv(n * ZoomUnit, viewport.zoom)

\* a key that is handled at every zoom
editAllowedAlways(viewport) == TRUE

\* if (viewport.zoom >= 1.0) of the Enter and g keys
editAllowed(viewport) == viewport.zoom >= ZoomUnit

\* the events of a session so far: the keys, the toggles in place and the
\* Sets made by ticks, toggles and placements; a session handles MaxKeys
\* events
sessionBudget == ui.keys + ui.events + Len(heap) - 1 < MaxKeys

sessionFrame == UNCHANGED <<world, packedWorld, generation, heap, worldRef,
                            serverVars, codecVars>>

\* the arrow keys: the cursor moves by the step and is clamped to the bounds;
\* before holds the cursor it read
terminalArrow(dx, dy) ==
    /\ ui.view = "terminal"
    /\ sessionBudget
    /\ LET stepSize == zoomedStep(ui.viewport, 1)
           worldBounds == getWorldBounds(ui.viewport)
           x == ui.cursor.x
           y == ui.cursor.y
       IN ui' = [ui EXCEPT !.keys = @ + 1,
                    !.cursor.x = IF dx < 0 THEN MathMax(<<x - stepSize, worldBounds.minX>>)
                                 ELSE IF dx > 0
                                 THEN MathMin(<<x + stepSize, worldBounds.maxX>>)
                                 ELSE x,
                    !.cursor.y = IF dy < 0 THEN MathMax(<<y - stepSize, worldBounds.minY>>)
                                 ELSE IF dy > 0
                                 THEN MathMin(<<y + stepSize, worldBounds.maxY>>)
                                 ELSE y]
    /\ op' = "arrow"
    /\ before' = <<ui.cursor>>
    /\ sessionFrame

\* the w, a, s and d keys of the terminal: the viewport moves by 3 rows or 5
\* columns, scaled when zoomed out, and a cursor left outside is centred
terminalPan(dx, dy) ==
    /\ ui.view = "terminal"
    /\ sessionBudget
    /\ LET moved == panViewport(ui.viewport, dx * zoomedStep(ui.viewport, 5),
                                dy * zoomedStep(ui.viewport, 3))
       IN ui' = [ui EXCEPT !.keys = @ + 1,
                           !.viewport = moved,
                           !.cursor = IF isCursorInViewport(ui.cursor, moved)
                                      THEN ui.cursor
                                      ELSE centerCursorInViewport(moved)]
    /\ op' = "pan"
    /\ before' = <<>>
    /\ sessionFrame

\* zoomIn (factor 2) and zoomOut (factor -2): the zoom doubles or halves
\* within 0.125 and 8.0 and the cursor is centred
terminalZoom(factor) ==
    /\ ui.view = "terminal"
    /\ sessionBudget
    /\ LET zoomed == [ui.viewport EXCEPT !.zoom =
                          IF factor > 0 THEN MathMin(<<@ * 2, ZoomMax>>)
                          ELSE MathMax(<<@ \div 2, ZoomMin>>)]
       IN ui' = [ui EXCEPT !.keys = @ + 1,
                           !.viewport = zoomed,
                           !.cursor = centerCursorInViewport(zoomed)]
    /\ op' = "zoom"
    /\ before' = <<>>
    /\ sessionFrame

\* the c key
terminalCentre ==
    /\ ui.view = "terminal"
    /\ sessionBudget
    /\ ui' = [ui EXCEPT !.keys = @ + 1, !.cursor = centerCursorInViewport(ui.viewport)]
    /\ op' = "centre"
    /\ before' = <<>>
    /\ sessionFrame

\* the Enter key: toggleCell at the cursor, or a message when zoomed out
terminalEnter ==
    /\ ui.view = "terminal"
    /\ IF editAllowed(ui.viewport)
       THEN sessionBudget /\ terminalToggleCell(ui.cursor.x, ui.cursor.y)
       ELSE /\ sessionBudget
            /\ ui' = [ui EXCEPT !.keys = @ + 1]
            /\ op' = "Enter ignored"
            /\ before' = <<>>
            /\ sessionFrame

\* the g key: a glider at the cursor joins the world in a new Set, or a
\* message when zoomed out
terminalGlider ==
    /\ ui.view = "terminal"
    /\ sessionBudget
    /\ ui' = [ui EXCEPT !.keys = @ + 1]
    /\ before' = <<>>
    /\ IF editAllowed(ui.viewport)
       THEN /\ Len(heap) < MaxHeap
            /\ LET x == ui.cursor.x
                   y == ui.cursor.y
                   newGlider == createWorld({<<x + 1, y>>, <<x + 2, y + 1>>, <<x, y + 2>>,
                                             <<x + 1, y + 2>>, <<x + 2, y + 2>>})
                   r == installFresh(heap, worldRef, heap[worldRef] \cup newGlider)
               IN heap' = r.heap /\ worldRef' = r.ref
            /\ op' = "g"
       ELSE /\ op' = "g ignored"
            /\ UNCHANGED <<heap, worldRef>>
    /\ UNCHANGED <<world, packedWorld, generation, serverVars, codecVars>>

\* the r key of the terminal
terminalRun ==
    /\ ui.view = "terminal"
    /\ sessionBudget
    /\ ui' = [ui EXCEPT !.keys = @ + 1, !.running = ~@]
    /\ op' = "run"
    /\ before' = <<>>
    /\ sessionFrame

\* a run of the terminal's gameLoop when the tick interval has passed
gameLoop ==
    /\ ui.view = "terminal"
    /\ ui.running
    /\ sessionBudget
    /\ heapTick

\* a toggleRunning that starts a timer without looking at running
timersAfterToggleStarts(timers, isRunning, gameInterval, id, period) ==
    timers \cup {[id |-> id, period |-> period]}

\* the timers after toggleRunning: setInterval adds one, clearInterval removes
\* the one gameInterval names
timersAfterToggle(timers, isRunning, gameInterval, id, period) ==
    IF isRunning
    THEN timers \cup {[id |-> id, period |-> period]}
    ELSE {t \in timers : t.id # gameInterval}

\* a timer that takes the default period whatever speed is selected
timerPeriodFixed(view, speed) == TICK_INTERVAL

\* setInterval(tick, speed()); setInterval(tick, 500) in the plain view
timerPeriod(view, speed) == IF view = "plain" THEN TICK_INTERVAL ELSE speed

\* toggleRunning of the Solid views; timers are numbered as they are made
toggleRunning ==
    /\ ui.view \in {"solid", "packed", "plain"}
    /\ sessionBudget
    /\ LET isRunning == ~ui.running
           id == ui.timersMade + 1
       IN ui' = [ui EXCEPT !.keys = @ + 1,
                           !.running = isRunning,
                           !.timers = timersAfterToggle(ui.timers, isRunning,
                                          ui.gameInterval, id,
                                          timerPeriod(ui.view, ui.speed)),
                           !.gameInterval = IF isRunning THEN id ELSE @,
                           !.timersMade = IF isRunning THEN id ELSE @]
    /\ op' = "toggleRunning"
    /\ before' = <<>>
    /\ sessionFrame

\* the Space key: tick
keySpace == sessionBudget /\ heapTick

\* a click on a cell of a Solid view
cellClick(x, y) == sessionBudget /\ solidToggleCell(x, y)

\* an active timer fires
timerTick ==
    /\ ui.view \in {"solid", "packed", "plain"}
    /\ ui.timers # {}
    /\ sessionBudget
    /\ heapTick

\* the speed selector
setSpeed(value) ==
    /\ ui.view \in {"solid", "packed"}
    /\ sessionBudget
    /\ ui.speed # value
    /\ ui' = [ui EXCEPT !.keys = @ + 1, !.speed = value]
    /\ op' = "setSpeed"
    /\ before' = <<>>
    /\ sessionFrame

\* the w, a, s and d keys of the Solid views
solidPan(dx, dy) ==
    /\ ui.view \in {"solid", "packed", "plain"}
    /\ sessionBudget
    /\ ui' = [ui EXCEPT !.keys = @ + 1, !.viewport = panViewport(@, dx, dy)]
    /\ op' = "pan"
    /\ before' = <<>>
    /\ sessionFrame

SessionViews == {"terminal", "solid", "packed", "plain"}

\* the zooms of the terminal, 0.125 to 8.0: a session starts at 1.0, and
\* zoom keys pressed first change the zoom and centre the cursor, which it
\* already is
ZoomLevels == {1, 2, 4, 8, 16, 32, 64}

\* the speeds the selector is set to, of speedPresets
SessionSpeeds == {200, 1000}

\* the world a view starts with: the glider passed to interactiveMode, the
\* centred patterns, the glider and the blinker of the plain view
initialWorld(view) ==
    IF view = "terminal" THEN glider
    ELSE IF view = "plain"
    THEN glider \cup createWorld({<<5, 5>>, <<6, 5>>, <<7, 5>>})
    ELSE createCenteredPatterns(view, 80, 40)

InitSession ==
    /\ \E view \in SessionViews, zoom \in ZoomLevels :
          LET viewport == IF view = "terminal" THEN createViewport(0, 0, 25, 15, zoom)
                          ELSE createViewport(0, 0, 80, 40, ZoomUnit)
          IN /\ ui = [view |-> view, isMouseDown |-> FALSE, lastToggledCell |-> <<>>,
                      events |-> 0, placementMode |-> "single",
                      selectedPattern |-> patterns[1],
                      viewport |-> viewport,
                      cursor |-> centerCursorInViewport(viewport),
                      running |-> FALSE, speed |-> 500, timers |-> {},
                      gameInterval |-> 0, timersMade |-> 0, keys |-> 0]
             /\ heap = <<initialWorld(view)>>
    /\ worldRef = 1
    /\ world = {}
    /\ packedWorld = {}
    /\ generation = 0
    /\ ServerIdle
    /\ codecKey = <<>>
    /\ decoded = <<>>
    /\ op = "init"
    /\ before = <<>>

NextSession ==
    \/ keySpace
    \/ gameLoop
    \/ timerTick
    \/ \E d \in {<<-1, 0>>, <<1, 0>>, <<0, -1>>, <<0, 1>>} : terminalArrow(d[1], d[2])
    \/ \E d \in {<<-1, 0>>, <<1, 0>>, <<0, -1>>, <<0, 1>>} : terminalPan(d[1], d[2])
    \/ \E factor \in {-2, 2} : terminalZoom(factor)
    \/ terminalCentre
    \/ terminalEnter
    \/ terminalGlider
    \/ terminalRun
    \/ toggleRunning
    \/ \E value \in SessionSpeeds : setSpeed(value)
    \/ \E d \in {<<-3, 0>>, <<3, 0>>, <<0, -3>>, <<0, 3>>} : solidPan(d[1], d[2])
    \/ \E c \in {<<40, 20>>, <<41, 20>>} : cellClick(c[1], c[2])

SpecSession == InitSession /\ [][NextSession]_vars

-----------------------------------------------------------------------------
(* The patterns under the steppers: a pattern of the catalogue, moved by a
   shift, is made into a world of string keys or of bit-packed keys, and is
   stepped by tick or, with string keys, by run. *)

PatternGens == 4

PatternShifts == {<<0, 0>>, <<-3, -2>>, <<9, -10>>}

Translated(cells, dx, dy) == {<<c[1] + dx, c[2] + dy>> : c \in cells}

viewCreateWorld(view, cells) ==
    IF view = "packed" THEN packedCreateWorld(cells) ELSE createWorld(cells)

InitPatterns ==
    /\ \E i \in DOMAIN patterns, d \in PatternShifts, view \in {"solid", "packed"} :
          LET cells == Translated(Range(patterns[i].cells), d[1], d[2])
          IN /\ world = viewCreateWorld(view, cells)
             /\ before = [name |-> patterns[i].name, cells |-> cells,
                          view |-> view, initial |-> viewCreateWorld(view, cells)]
    /\ packedWorld = {}
    /\ generation = 0
    /\ HeapIdle
    /\ ServerIdle
    /\ codecKey = <<>>
    /\ decoded = <<>>
    /\ op = "init"

\* setWorld(nextGeneration(world())), with the stepper of the view
patternTick ==
    /\ generation < PatternGens
    /\ world' = viewNextGeneration(before.view, world)
    /\ generation' = generation + 1
    /\ op' = "tick"
    /\ UNCHANGED <<packedWorld, heapVars, serverVars, codecVars, before>>

\* run(world, n) on the initial world or on the result of a run
patternRun(n) ==
    /\ op \in {"init", "run"}
    /\ before.view = "solid"
    /\ generation + n <= PatternGens
    /\ world' = run(world, n)
    /\ generation' = generation + n
    /\ op' = "run"
    /\ UNCHANGED <<packedWorld, heapVars, serverVars, codecVars, before>>

NextPatterns ==
    \/ patternTick
    \/ \E n \in 0..PatternGens : patternRun(n)

SpecPatterns == InitPatterns /\ [][NextPatterns]_vars

-----------------------------------------------------------------------------
(* The string stepper with the iteration order of its Set and Map: a world
   is the sequence of its keys in insertion order; two worlds with the same
   keys, inserted in different orders, are stepped side by side. *)

OrderCells == 3

\* the cells the ordered worlds are made of
OrderGrid == {<<-1, 0>>, <<0, 0>>, <<1, 0>>, <<0, -1>>, <<0, 1>>, <<10, 0>>}

\* the insertion orders of a set of keys
OrdersOf(keys) ==
    {o \in [1..Cardinality(keys) -> keys] : \A i, j \in DOMAIN o : o[i] = o[j] => i = j}

\* the key of every counts.set call, in the order of the two loops
orderedVisits(order) ==
    [i \in 1..(8 * Len(order)) |->
        LET n == neighbors(parseCell(order[((i - 1) \div 8) + 1]))[((i - 1) % 8) + 1]
        IN cellKey(n[1], n[2])]

\* the entries [key, count] of the counts map, in insertion order
orderedNeighborCounts(order) ==
    LET visits == orderedVisits(order)
        keys == InsertionOrder(visits)
    IN [n \in 1..Len(keys) |->
           <<keys[n], Cardinality({i \in 1..Len(visits) : visits[i] = keys[n]})>>]

\* a stepper whose world.has misses the key inserted last
orderedNextGenerationMissesLast(order) ==
    LET counts == orderedNeighborCounts(order)
        Keep(e) == Survives(e[2], e[1] \in Range(SubSeq(order, 1, Len(order) - 1)))
        kept == SelectSeq(counts, Keep)
    IN [n \in 1..Len(kept) |-> kept[n][1]]

\* next, in insertion order: the entries of counts are examined in order
orderedNextGeneration(order) ==
    LET counts == orderedNeighborCounts(order)
        Keep(e) == Survives(e[2], e[1] \in Range(order))
        kept == SelectSeq(counts, Keep)
    IN [n \in 1..Len(kept) |-> kept[n][1]]

InitOrder ==
    /\ \E cs \in {c \in SUBSET OrderGrid : Cardinality(c) <= OrderCells} :
          /\ world = createWorld(cs)
          /\ before \in OrdersOf(createWorld(cs)) \X OrdersOf(createWorld(cs))
    /\ packedWorld = {}
    /\ generation = 0
    /\ HeapIdle
    /\ ServerIdle
    /\ codecKey = <<>>
    /\ decoded = <<>>
    /\ op = "init"

\* nextGeneration is called on each of the two worlds; world keeps the keys
\* of the input
orderedStep ==
    /\ generation < MaxGen
    /\ before[1] # <<>>
    /\ before' = <<orderedNextGeneration(before[1]), orderedNextGeneration(before[2])>>
    /\ world' = Range(before[1])
    /\ generation' = generation + 1
    /\ op' = "nextGeneration"
    /\ UNCHANGED <<packedWorld, heapVars, serverVars, codecVars>>

SpecOrder == InitOrder /\ [][orderedStep]_vars

-----------------------------------------------------------------------------
(* The SVG view's viewport: the world in insertion order, the viewport origin
   moved by the keyboard, and aliveCellsInViewport *)

\* the SVG grid is as wide and as high as the window allows
GRID_WIDTH == GridWidth
GRID_HEIGHT == GridHeight

MOVE_SPEED == 5

\* the viewport origin stays within ViewSpan of (0, 0)
ViewSpan == 5

\* an initial world has at most ViewCells cells
ViewCells == 2

\* the cells of the initial worlds, on both sides of the edges of the
\* rectangles the viewport can show
ViewGrid ==
    {<<0, 0>>, <<2, 1>>, <<3, 0>>, <<0, 2>>, <<-1, 0>>,
     <<-5, -5>>, <<-3, -4>>, <<-2, -5>>, <<5, 5>>}

\* a viewport test that lets the column screenX = GRID_WIDTH in
isVisibleInclusive(screenX, screenY) ==
    screenX >= 0 /\ screenX <= GRID_WIDTH /\ screenY >= 0 /\ screenY < GRID_HEIGHT

isVisible(screenX, screenY) ==
    screenX >= 0 /\ screenX < GRID_WIDTH /\ screenY >= 0 /\ screenY < GRID_HEIGHT

\* the cells array after the loop over world(), in iteration order
aliveCellsInViewport(order, viewportX, viewportY) ==
    LET entry(k) ==
            LET c == parseKey(k)
            IN [worldX |-> c[1], worldY |-> c[2],
                screenX |-> c[1] - viewportX, screenY |-> c[2] - viewportY]
        all == [i \in 1..Len(order) |-> entry(order[i])]
        Visible(e) == isVisible(e.screenX, e.screenY)
    IN SelectSeq(all, Visible)

InitViewport ==
    /\ \E n \in 0..ViewCells :
         \E cells \in {o \in [1..n -> ViewGrid] : \A i, j \in 1..n : o[i] = o[j] => i = j} :
            /\ world = createWorld(Range(cells))
            /\ before = [cells |-> cells,
                         order |-> [i \in 1..n |-> cellKey(cells[i][1], cells[i][2])],
                         viewportX |-> 0, viewportY |-> 0]
    /\ packedWorld = {}
    /\ generation = 0
    /\ HeapIdle
    /\ ServerIdle
    /\ codecKey = <<>>
    /\ decoded = <<>>
    /\ op = "init"

\* handleKeyDown: w / s / a / d and the arrow keys
handleKeyDown(dx, dy) ==
    /\ before.viewportX + dx * MOVE_SPEED \in (-ViewSpan)..ViewSpan
    /\ before.viewportY + dy * MOVE_SPEED \in (-ViewSpan)..ViewSpan
    /\ before' = [before EXCEPT !.viewportX = @ + dx * MOVE_SPEED,
                                !.viewportY = @ + dy * MOVE_SPEED]
    /\ op' = "handleKeyDown"
    /\ decoded' = <<>>
    /\ UNCHANGED <<uiVars, serverVars, codecKey>>

\* the view renders: <For each={aliveCellsInViewport()}>
renderCells ==
    /\ op # "aliveCellsInViewport"
    /\ decoded' = aliveCellsInViewport(before.order, before.viewportX, before.viewportY)
    /\ op' = "aliveCellsInViewport"
    /\ UNCHANGED <<uiVars, serverVars, codecKey, before>>

NextViewport ==
    \/ \E d \in {<<0, -1>>, <<0, 1>>, <<-1, 0>>, <<1, 0>>} : handleKeyDown(d[1], d[2])
    \/ renderCells

SpecViewport == InitViewport /\ [][NextViewport]_vars

-----------------------------------------------------------------------------
(* The string decoders on any string: parseCell of the library and parseKey
   of the SVG view, given keys that cellKey need not have made *)

\* a key has at most ParseLen characters
ParseLen == 3

ParseAlphabet == {"1", "-", ",", "a"}

ParseKeys == UNION {[1..n -> ParseAlphabet] : n \in 0..ParseLen}

InitParse ==
    /\ codecKey \in ParseKeys
    /\ decoded = <<>>
    /\ before = <<>>
    /\ op = "init"
    /\ UiIdle
    /\ ServerIdle

\* parseCell(key) returns: split, map and Number throw for no string
decodeParseCell ==
    /\ op = "init"
    /\ decoded' = parseCell(codecKey)
    /\ op' = "parseCell"
    /\ UNCHANGED <<uiVars, serverVars, codecKey, before>>

\* parseKey(key) returns: a missing piece destructures to undefined
decodeParseKey ==
    /\ op = "init"
    /\ decoded' = parseKey(codecKey)
    /\ op' = "parseKey"
    /\ UNCHANGED <<uiVars, serverVars, codecKey, before>>

NextParse == decodeParseCell \/ decodeParseKey

SpecParse == InitParse /\ [][NextParse]_vars

-----------------------------------------------------------------------------
(* The bounded grid: class GameOfLife with its Cell objects.  A cell is named
   by its coordinates; cells maps each to the fields alive and nextState; the
   Map of the game iterates in the order fromRandomGrid added the cells. *)

BoardWidth == 3
BoardHeight == 3

Board == (0..(BoardWidth - 1)) \X (0..(BoardHeight - 1))

\* getAllCells(): y outside, x inside
boardOrder ==
    [i \in 1..(BoardWidth * BoardHeight) |->
        <<(i - 1) % BoardWidth, (i - 1) \div BoardWidth>>]

\* getCell(x, y): undefined outside the grid
getCell(x, y) ==
    IF x < 0 \/ x >= BoardWidth \/ y < 0 \/ y >= BoardHeight
    THEN undefined
    ELSE <<x, y>>

\* the neighbors Set of the cell at (x, y) after fromRandomGrid connected it
cellNeighbors(x, y) ==
    {getCell(x + d[1], y + d[2]) :
        d \in {e \in {-1, 0, 1} \X {-1, 0, 1} :
                  e # <<0, 0>> /\ getCell(x + e[1], y + e[2]) # undefined}}

\* getAliveNeighborCount
getAliveNeighborCount(cells, c) ==
    Cardinality({n \in cellNeighbors(c[1], c[2]) : cells[n].alive})

\* a Cell.step that writes alive at once
cellStepInPlace(cells, c) ==
    LET aliveNeighbors == getAliveNeighborCount(cells, c)
        next == IF cells[c].alive
                THEN aliveNeighbors = 2 \/ aliveNeighbors = 3
                ELSE IF aliveNeighbors = 3 THEN TRUE ELSE cells[c].nextState
    IN [cells EXCEPT ![c] = [alive |-> next, nextState |-> next]]

\* Cell.step: nextState is written; for a dead cell only when it is born
cellStep(cells, c) ==
    LET aliveNeighbors == getAliveNeighborCount(cells, c)
        next == IF cells[c].alive
                THEN aliveNeighbors = 2 \/ aliveNeighbors = 3
                ELSE IF aliveNeighbors = 3 THEN TRUE ELSE cells[c].nextState
    IN [cells EXCEPT ![c].nextState = next]

\* the first loop of GameOfLife.step, from the i-th cell on
RECURSIVE stepLoop(_, _)
stepLoop(cells, i) ==
    IF i > Len(boardOrder) THEN cells
    ELSE stepLoop(cellStep(cells, boardOrder[i]), i + 1)

\* the second loop: cell.alive = cell.nextState; cell.nextState = cell.alive
gameStep(cells) ==
    LET stepped == stepLoop(cells, 1)
    IN [c \in Board |-> [alive |-> stepped[c].nextState,
                         nextState |-> stepped[c].nextState]]

\* fromRandomGrid: every cell of the grid, alive or not, nextState = alive
InitBoard ==
    /\ \E live \in SUBSET Board :
          world = [c \in Board |-> [alive |-> c \in live, nextState |-> c \in live]]
    /\ before = <<>>
    /\ packedWorld = {}
    /\ generation = 0
    /\ HeapIdle
    /\ ServerIdle
    /\ codecKey = <<>>
    /\ decoded = <<>>
    /\ op = "init"

\* runGame: graph.step()
boardStep ==
    /\ generation < MaxGen
    /\ world' = gameStep(world)
    /\ before' = world
    /\ generation' = generation + 1
    /\ op' = "step"
    /\ UNCHANGED <<packedWorld, heapVars, serverVars, codecVars>>

SpecBoard == InitBoard /\ [][boardStep]_vars

-----------------------------------------------------------------------------
(* Reference definitions for the properties: Conway's rule on coordinates *)

Offsets == ({-1, 0, 1} \X {-1, 0, 1}) \ {<<0, 0>>}

\* every cell a world of the core specification can reach lies in the box
Box == ((-2 - MaxGen)..(GridWidth - 1 + MaxGen)) \X ((-2 - MaxGen)..(GridHeight - 1 + MaxGen))
\* the string key of every cell of the box, as cellKey computes it
KeyOf == [c \in Box |-> cellKey(c[1], c[2])]
BoxKeys == {KeyOf[c] : c \in Box}

\* the cell of the box that has a given key
CellOf == [k \in BoxKeys |-> CHOOSE c \in Box : KeyOf[c] = k]

LiveCells(w) == {CellOf[k] : k \in w \cap BoxKeys}

\* the Moore neighbourhood of every cell of the box
Moore == [c \in Box |-> {<<c[1] + d[1], c[2] + d[2]>> : d \in Offsets}]

LiveNeighbours(live, c) == Cardinality(Moore[c] \cap live)

\* the live cells and every cell next to one; a cell of the box outside this
\* set is dead and has no live neighbour
Near(live) == live \cup UNION {Moore[c] : c \in live}

\* the bit-packed keys of the cells of a string-keyed world
PackedOf(w) == {packedCellKey(parseCell(k)[1], parseCell(k)[2]) : k \in w}

InInt16(c) ==
    /\ c[1] >= Int16Min /\ c[1] <= Int16Max
    /\ c[2] >= Int16Min /\ c[2] <= Int16Max


\* the two 16-bit fields of a packed code, read arithmetically as signed values
SignedField(f) == IF f >= 32768 THEN f - 65536 ELSE f
FieldX(code) == SignedField((code \div 65536) % 65536)
FieldY(code) == SignedField(code % 65536)

\* the world cells of one chunk record, in the order of its list
RecordCells(r) ==
    [i \in 1..Len(r.cells) |->
        <<r.chunkX * 64 + FieldX(r.cells[i]), r.chunkY * 64 + FieldY(r.cells[i])>>]

\* the world cells of a chunk table, record after record
TableCells(table) == Flatten([i \in 1..Len(table) |-> RecordCells(table[i])])

DecodedWorld(table) == Range(TableCells(table))

AroundCell(c) == {<<c[1] + d[1], c[2] + d[2]>> : d \in Offsets}

\* Conway's rule B3/S23 on a set of cells
ConwayNext(live) ==
    {c \in live \cup UNION {AroundCell(l) : l \in live} :
        LET n == Cardinality(AroundCell(c) \cap live)
        IN n = 3 \/ (c \in live /\ n = 2)}

-----------------------------------------------------------------------------
(* Properties *)

\* C1: after a tick a cell is live iff it had exactly 3 live Moore
\* neighbours, or was live and had exactly 2, in the world the tick read; so
\* a dead cell with 2 or 4 neighbours is not born and a live cell with 4 or
\* more dies.  (Cells that are not near a live cell have no live neighbour:
\* the rule says they are dead, and the stepped world holds none of them.)
C1_RuleB3S23 ==
    op = "tick" =>
        LET live == LiveCells(before)
            near == Near(live)
        IN /\ before \subseteq BoxKeys
           /\ world \subseteq {KeyOf[c] : c \in near}
           /\ \A c \in near :
                 (KeyOf[c] \in world) <=>
                     \/ LiveNeighbours(live, c) = 3
                     \/ c \in live /\ LiveNeighbours(live, c) = 2

\* a tick that bore a cell, left a dead cell with 2 neighbours dead and
\* killed a live cell with 4 or more neighbours
C1_Witness ==
    /\ op = "tick"
    /\ LET live == LiveCells(before)
       IN /\ \E c \in Box \ live :
                LiveNeighbours(live, c) = 3 /\ KeyOf[c] \in world
          /\ \E c \in Box \ live :
                LiveNeighbours(live, c) = 2 /\ KeyOf[c] \notin world
          /\ \E c \in live :
                LiveNeighbours(live, c) >= 4 /\ KeyOf[c] \notin world

\* C2: the neighbour-count map a tick builds has an entry for a cell iff the
\* cell has at least one live Moore neighbour in the world the tick read, the
\* entry is the number of live neighbours (1 to 8, never 0), and a live cell
\* with no live neighbour has no entry.  (A cell that is not near a live cell
\* has no live neighbour, and the map has no key outside the near cells.)
C2_CountsExact ==
    op = "tick" =>
        LET counts == neighborCounts(before)
            live == LiveCells(before)
            near == Near(live)
        IN /\ before \subseteq BoxKeys
           /\ DOMAIN counts \subseteq {KeyOf[c] : c \in near}
           /\ \A c \in near :
                 LET k == KeyOf[c]
                     n == LiveNeighbours(live, c)
                 IN /\ (k \in DOMAIN counts) <=> (n >= 1)
                    /\ (k \in DOMAIN counts) => (counts[k] = n /\ counts[k] \in 1..8)

\* a tick on a world with an isolated live cell and a cell that has three
\* live neighbours
C2_Witness ==
    /\ op = "tick"
    /\ LET live == LiveCells(before)
       IN /\ \E c \in live : LiveNeighbours(live, c) = 0
          /\ \E c \in Box : LiveNeighbours(live, c) = 3

\* C3: a cell with no entry in the neighbour-count map is dead after the
\* tick; a world of one cell, and the empty world, step to the empty world.
C3_UncountedDies ==
    op = "tick" =>
        LET counted == DOMAIN neighborCounts(before)
        IN /\ \A k \in BoxKeys \ counted : k \notin world
           /\ Cardinality(before) <= 1 => world = {}

\* a tick on a world of one cell, at a negative coordinate
C3_Witness ==
    /\ op = "tick"
    /\ before = {cellKey(-1, -1)}
    /\ world = {}

\* C4 (as claimed): from a world whose cells lie in the signed 16-bit range,
\* the bit-packed stepper yields exactly the bit-packed keys of the cells
\* the string-keyed stepper yields.
C4_SteppersAgree ==
    ( /\ op = "stepBoth"
      /\ \A k \in before[1] : InInt16(parseCell(k))
      /\ before[2] = PackedOf(before[1]) )
    => packedWorld = PackedOf(world)

\* C5 (as claimed): unpackKey(cellKey(x, y)) = (x, y) for x and y in the
\* signed 16-bit range, negative values included.
C5_PackedRoundTrip ==
    (op = "unpackKey" /\ InInt16(before)) => decoded = before

\* C6: parsing the string key of (x, y) gives back (x, y), negative
\* coordinates included, and no other coordinate pair has the same key.
C6_StringRoundTrip ==
    /\ op = "parseCell" => decoded = before
    /\ op = "cellKey" =>
          \A c \in CodecCoords \X CodecCoords :
              cellKey(c[1], c[2]) = codecKey => c = before

\* a multi-digit negative pair decoded back
C6_Witness ==
    /\ op = "parseCell"
    /\ before = <<Int16Min, -10>>
    /\ decoded = before

\* C7: the world decoded from the gameChunks records after stepSimulation is
\* the next generation, by B3/S23, of the world decoded from the records the
\* call read, whatever codes those records hold; and a gameState record that
\* exists has its generation increased by exactly 1.
C7_StepIsNextGeneration ==
    op = "stepSimulation" =>
        /\ DecodedWorld(gameChunks) = ConwayNext(DecodedWorld(before[1]))
        /\ Len(before[2]) > 0 =>
              /\ Len(gameState) = 1
              /\ gameState[1].generation = before[2][1].generation + 1

\* a step, with a gameState record, from the cells (-1, 0), (-1, 1) and (0, 0),
\* the second stored in chunk (0, 0) with the sign bit of its x field set, to
\* the block that has (0, 1) as well
C7_Witness ==
    /\ op = "stepSimulation"
    /\ Len(before[2]) > 0
    /\ \E i \in 1..Len(before[1]) :
          /\ before[1][i].chunkX = 0
          /\ packLocal(-1, 1) \in Range(before[1][i].cells)
    /\ DecodedWorld(before[1]) = {<<-1, 0>>, <<-1, 1>>, <<0, 0>>}
    /\ DecodedWorld(gameChunks) = {<<-1, 0>>, <<-1, 1>>, <<0, 0>>, <<0, 1>>}

\* C8: decoding the chunk records stepSimulation builds gives exactly the
\* cells it packed: none is lost or moved, none is held twice, and no two
\* records are for the same chunk.
C8_ChunkRoundTrip ==
    op = "stepSimulation" =>
        LET packedCells == Range(nextGenCells(cellMapKeys(before[1])))
            held == TableCells(gameChunks)
        IN /\ {cellKey(held[i][1], held[i][2]) : i \in 1..Len(held)} = packedCells
           /\ Len(held) = Cardinality(packedCells)
           /\ \A i, j \in 1..Len(gameChunks) :
                 (/\ gameChunks[i].chunkX = gameChunks[j].chunkX
                  /\ gameChunks[i].chunkY = gameChunks[j].chunkY) => i = j

\* a step that built records for two chunks, one of them left of the origin
C8_Witness ==
    /\ op = "stepSimulation"
    /\ Len(gameChunks) = 2
    /\ \E c \in DecodedWorld(gameChunks) : c[1] < 0

\* the world coordinates the mapping is checked on
MapCoords == (-MapSpan)..MapSpan

\* the coordinates that localOf or chunkOf maps wrongly
MapFailures ==
    {w \in MapCoords :
        ~(/\ localOf(w) \in 0..(ChunkSize - 1)
          /\ chunkOf(w) * ChunkSize + localOf(w) = w)}

\* C9: for every world coordinate w, negative included, localOf(w) is in
\* [0, 64) and chunkOf(w) * 64 + localOf(w) = w; every packed code the stepper
\* writes has both fields in [0, 64), and the sign correction of the decode
\* leaves both fields as they are.
C9_LocalInRange ==
    /\ MapFailures = {}
    /\ op = "stepSimulation" =>
          \A i \in 1..Len(gameChunks) : \A code \in Range(gameChunks[i].cells) :
              LET fieldX == (code \div 65536) % 65536
                  fieldY == code % 65536
              IN /\ fieldX \in 0..(ChunkSize - 1)
                 /\ fieldY \in 0..(ChunkSize - 1)
                 /\ unpackLocalX(code) = fieldX
                 /\ unpackLocalY(code) = fieldY

\* a step that wrote the cell (0, -1): chunk (0, -1), local y 63
C9_Witness ==
    /\ op = "stepSimulation"
    /\ \E i \in 1..Len(gameChunks) :
          /\ gameChunks[i].chunkY = -1
          /\ gameChunks[i].cells = <<63>>
    /\ chunkOf(-1) = -1
    /\ localOf(-1) = 63

\* C10: whatever placeCells, stepSimulation, clearWorld, updateChunk and
\* updateChunks calls were made, no record of gameChunks or of chunks has an
\* empty cells list.
C10_NoEmptyChunk ==
    /\ \A i \in 1..Len(gameChunks) : Len(gameChunks[i].cells) > 0
    /\ \A i \in 1..Len(chunks) : Len(chunks[i].cells) > 0

\* an updateChunk call that carried an empty list for a chunk that had a
\* record: the record is gone, another record is still there, and gameChunks
\* holds the records of a step
C10_Witness ==
    /\ op = "updateChunk"
    /\ Len(before[2].cells) = 0
    /\ Len(before[1]) = 1
    /\ existingWorldChunk(chunks, before[2].worldId,
                          before[2].chunkX, before[2].chunkY) = 0
    /\ Len(chunks) > 0
    /\ Len(gameChunks) > 0
    /\ steps > 0

\* the chunks of a table as (chunkX, chunkY, cells) triples: the records of
\* one world, and the updates that carry cells
StoredOf(table, worldId) ==
    {<<table[i].chunkX, table[i].chunkY, table[i].cells>> :
        i \in {j \in 1..Len(table) : table[j].worldId = worldId}}
SuppliedOf(chunkList) ==
    {<<chunkList[i].chunkX, chunkList[i].chunkY, chunkList[i].cells>> :
        i \in {j \in 1..Len(chunkList) : Len(chunkList[j].cells) > 0}}

\* C11 (as claimed): after updateChunks(worldId, chunks, newGeneration) the
\* records stored for worldId are exactly the supplied chunks that carry
\* cells, the world's generation is newGeneration, and the records of every
\* other world are as they were.
C11_StoredIsSupplied ==
    op = "updateChunks" =>
        /\ StoredOf(chunks, before[3]) = SuppliedOf(before[2])
        /\ worlds[before[3]].generation = before[4]
        /\ \A w \in (1..MaxWorlds) \ {before[3]} :
              existingChunks(chunks, w) = existingChunks(before[1], w)

\* C12 (as claimed): updateChunks never writes a record it has deleted, and
\* whatever updateChunk and updateChunks calls were made, no two records
\* have the same worldId, chunkX and chunkY.
C12_OneRecordPerKey ==
    /\ op = "updateChunks threw" => before[3] \notin 1..Len(worlds)
    /\ \A i, j \in 1..Len(chunks) :
          (/\ chunks[i].worldId = chunks[j].worldId
           /\ chunks[i].chunkX = chunks[j].chunkX
           /\ chunks[i].chunkY = chunks[j].chunkY) => i = j

\* the tickGameWorld transactions that have read the chunks
Stepping == {i \in 1..Len(txns) : txns[i].phase \in {"read", "deleted", "inserted"}}

C14_TickLeavesInput ==
    op = "tick" =>
        /\ worldRef # before[1]
        /\ heap[before[1]] = before[2]

\* a tick whose result differs from the non-empty world it read
C14_Witness ==
    /\ op = "tick"
    /\ before[2] # {}
    /\ heap[worldRef] # before[2]
    /\ heap[before[1]] = before[2]

\* C15 (as claimed): after a toggleCell of any view, the Set that was the
\* view's world still has the members it had, and the view's world is a Set
\* that differs from it in the key of (x, y) and in no other key.
C15_ToggleLeavesInput ==
    op = "toggleCell" =>
        /\ heap[before[1]] = before[2]
        /\ (heap[worldRef] \ before[2]) \cup (before[2] \ heap[worldRef])
              = {viewKey(ui.view, before[3], before[4])}

CentreOf(lo, hi) == CHOOSE h \in lo..hi : 2 * h <= lo + hi /\ lo + hi < 2 * h + 2

\* the cells of a pattern placed with its centre at (cx, cy)
PlacedCells(cells, cx, cy) ==
    LET xs == {c[1] : c \in cells}
        ys == {c[2] : c \in cells}
        minX == CHOOSE m \in xs : \A n \in xs : m <= n
        maxX == CHOOSE m \in xs : \A n \in xs : m >= n
        minY == CHOOSE m \in ys : \A n \in ys : m <= n
        maxY == CHOOSE m \in ys : \A n \in ys : m >= n
    IN Translated(cells, cx - CentreOf(minX, maxX), cy - CentreOf(minY, maxY))

C18_GliderMoves ==
    (op = "run" /\ generation = 4) =>
        /\ before.initial = glider =>
              world = createWorld({<<2, 1>>, <<3, 2>>, <<1, 3>>, <<2, 3>>, <<3, 3>>})
        /\ before.name = "Glider" =>
              world = createWorld(Translated(before.cells, 1, 1))

\* run(glider, 4) was computed
C18_Witness ==
    /\ op = "run"
    /\ generation = 4
    /\ before.initial = glider
    /\ world # glider

\* C19: one generation after the blinker of the tests the world is
\* {(1,-1),(1,0),(1,1)}, and two generations after it is the blinker again;
\* likewise at every shift.
C19_BlinkerOscillates ==
    (before.view = "solid" /\ before.name = "Blinker") =>
        /\ (before.initial = blinker /\ generation = 1) =>
              world = createWorld({<<1, -1>>, <<1, 0>>, <<1, 1>>})
        /\ generation = 1 =>
              world = createWorld({<<c[1], c[2] + e>> :
                                      c \in {b \in before.cells :
                                             /\ <<b[1] - 1, b[2]>> \in before.cells
                                             /\ <<b[1] + 1, b[2]>> \in before.cells},
                                      e \in {-1, 0, 1}})
        /\ generation = 2 => world = before.initial

\* the blinker of the tests was stepped twice
C19_Witness ==
    /\ op = "tick"
    /\ generation = 2
    /\ before.view = "solid"
    /\ before.initial = blinker
    /\ world = blinker

\* C20: the catalogue's patterns under the stepper, with string keys and with
\* bit-packed keys: the Block is unchanged by a step; the Beacon and the
\* Toad differ from their initial cells after 1 generation and equal them
\* after 2; the Pulsar differs after 1 and after 2 generations and equals them
\* after 3; the LWSS after 4 generations is its initial cells moved along
\* the x axis by a non-zero distance.
C20_CatalogueBehaves ==
    /\ (before.name = "Block" /\ generation = 1) => world = before.initial
    /\ before.name \in {"Beacon", "Toad"} =>
          /\ generation = 1 => world # before.initial
          /\ generation = 2 => world = before.initial
    /\ before.name = "Pulsar" =>
          /\ generation \in {1, 2} => world # before.initial
          /\ generation = 3 => world = before.initial
    /\ (before.name = "LWSS" /\ generation = 4) =>
          \E k \in ((-4)..4) \ {0} :
              world = viewCreateWorld(before.view, Translated(before.cells, k, 0))

\* the Pulsar with bit-packed keys, at a shift that puts it on negative rows,
\* was stepped three times
C20_Witness ==
    /\ op = "tick"
    /\ before.name = "Pulsar"
    /\ before.view = "packed"
    /\ <<11, -10>> \in before.cells
    /\ generation = 3
    /\ world = before.initial

\* C21: two worlds with the same keys, inserted in different orders, have
\* next worlds with the same keys, and these are the keys the stepper gives
\* as a set function.
C21_OrderIndependent ==
    /\ Range(before[1]) = Range(before[2])
    /\ op = "nextGeneration" =>
          /\ Range(before[1]) = nextGeneration(world)
          /\ \A i, j \in 1..Len(before[1]) : before[1][i] = before[1][j] => i = j

\* a step of two three-cell worlds in different insertion orders whose
\* results have a cell and come in different orders
C21_Witness ==
    /\ op = "nextGeneration"
    /\ Cardinality(world) = 3
    /\ Len(before[1]) > 1
    /\ before[1] # before[2]

\* nextGeneration applied k times, the last application outermost
RECURSIVE Iterated(_, _)
Iterated(w, k) == IF k = 0 THEN w ELSE nextGeneration(Iterated(w, k - 1))

\* C22: after run calls that asked for n generations in all, the world is
\* nextGeneration applied exactly n times to the initial world (the initial
\* world itself for n = 0), and for every a + b = n it is
\* run(run(initial, a), b).
C22_RunIsIteration ==
    op = "run" =>
        /\ world = Iterated(before.initial, generation)
        /\ generation = 0 => world = before.initial
        /\ \A a \in 0..generation :
              world = run(run(before.initial, a), generation - a)

\* three generations of the glider were run
C22_Witness ==
    /\ op = "run"
    /\ before.name = "Glider"
    /\ generation = 3
    /\ world # before.initial
    /\ world # nextGeneration(before.initial)

\* C23: aliveCellsInViewport returns one entry for every live cell with
\* 0 <= worldX - viewportX < GRID_WIDTH and 0 <= worldY - viewportY <
\* GRID_HEIGHT, carrying screenX = worldX - viewportX and screenY = worldY -
\* viewportY, and nothing else.
C23_ViewportCells ==
    op = "aliveCellsInViewport" =>
        LET inside == {c \in Range(before.cells) :
                          /\ 0 <= c[1] - before.viewportX
                          /\ c[1] - before.viewportX < GRID_WIDTH
                          /\ 0 <= c[2] - before.viewportY
                          /\ c[2] - before.viewportY < GRID_HEIGHT}
        IN /\ Range(decoded) =
                 {[worldX |-> c[1], worldY |-> c[2],
                   screenX |-> c[1] - before.viewportX,
                   screenY |-> c[2] - before.viewportY] : c \in inside}
           /\ Len(decoded) = Cardinality(inside)

\* with the viewport origin at (-5, -5), a world with a cell inside the
\* rectangle and a cell just right of it was rendered
C23_Witness ==
    /\ op = "aliveCellsInViewport"
    /\ before.viewportX = -5
    /\ before.viewportY = -5
    /\ Range(before.cells) = {<<-3, -4>>, <<-2, -5>>}
    /\ Len(decoded) = 1

\* a decimal integer: an optional minus sign and at least one digit
IsDecimal(t) ==
    \/ Len(t) > 0 /\ \A i \in 1..Len(t) : t[i] \in Range(Digits)
    \/ Len(t) > 1 /\ t[1] = "-" /\ \A i \in 2..Len(t) : t[i] \in Range(Digits)

\* the pieces of a string between its commas
Pieces(k) ==
    LET commas == {i \in 1..Len(k) : k[i] = ","}
        ends == commas \cup {Len(k) + 1}
    IN {SubSeq(k, (CHOOSE b \in (commas \cup {0}) :
                       b < e /\ \A c \in commas : ~(b < c /\ c < e)) + 1, e - 1) :
            e \in ends}

\* a key of two decimal integers with one comma between them
WellFormedKey(k) ==
    /\ Cardinality({i \in 1..Len(k) : k[i] = ","}) = 1
    /\ \A t \in Pieces(k) : IsDecimal(t)

\* C24 (as claimed): parseCell and parseKey, given a key that is not two
\* decimal integers separated by one comma, fail with a ParseError and
\* return no coordinate pair: a decoder that returned had a well-formed key.
C24_MalformedFails ==
    op \in {"parseCell", "parseKey"} => WellFormedKey(codecKey)

\* the value of [-32768, 32767] congruent to v modulo 65536
Int16Of(v) == ((v + 32768) % 65536) - 32768

\* C25: the bit-packed key of (x, y), for x and y inside and outside
\* [-32768, 32767], is the key of the in-range cell congruent to (x, y)
\* modulo 65536 on each axis, which is 65536 * x' + (y' mod 65536); adding
\* 65536 to x or to y gives the same key; and no other in-range cell has
\* that key.
C25_PackedKeyWraps ==
    op = "packedCellKey" =>
        LET x == Int16Of(before[1])
            y == Int16Of(before[2])
        IN /\ codecKey = 65536 * x + (y % 65536)
           /\ codecKey = packedCellKey(x, y)
           /\ codecKey = packedCellKey(before[1] + 65536, before[2])
           /\ codecKey = packedCellKey(before[1], before[2] + 65536)
           /\ \A c \in CodecCoords \X CodecCoords :
                 (InInt16(c) /\ packedCellKey(c[1], c[2]) = codecKey) => c = <<x, y>>

\* the key of (32768, -32769), which is the key of (-32768, 32767)
C25_Witness ==
    /\ op = "packedCellKey"
    /\ before = <<Int16Max + 1, Int16Min - 1>>
    /\ codecKey = packedCellKey(Int16Min, Int16Max)

\* the operations of a cron tick: the scheduler's start, tickGameWorld, and
\* the stages of the stepSimulation it runs
TickOps ==
    {"cron", "tickGameWorld", "stepSimulation deletes", "stepSimulation inserts",
     "stepSimulation"}

\* C26: a step of a cron tick either commits a generation while a gameState
\* record exists with isRunning true, or leaves every gameChunks record and
\* the gameState record (its generation with it) as they were.
C26_TickNeedsRunning ==
    [][op' \in TickOps =>
          \/ /\ op' = "stepSimulation"
             /\ Len(gameState) > 0
             /\ gameState[1].isRunning
          \/ /\ gameChunks' = gameChunks
             /\ gameState' = gameState]_vars

\* after a generation was committed and the simulation paused, a
\* tickGameWorld ran on stored chunks and returned
C26_Witness ==
    /\ op = "tickGameWorld"
    /\ Len(txns) = 0
    /\ Len(gameState) > 0
    /\ ~gameState[1].isRunning
    /\ gameState[1].generation > 0
    /\ Len(gameChunks) > 0

\* the live in-bounds Moore neighbours of a cell of the bounded grid
BoardLiveAround(cells, c) ==
    {n \in Board : /\ n # c
                   /\ n[1] - c[1] \in {-1, 0, 1}
                   /\ n[2] - c[2] \in {-1, 0, 1}
                   /\ cells[n].alive}

\* C27: after GameOfLife.step every cell is alive iff it had 3 live in-bounds
\* Moore neighbours before the call, or was alive and had 2; and nextState
\* equals alive for every cell.
C27_BoardStepSynchronous ==
    op = "step" =>
        \A c \in Board :
            /\ world[c].alive <=>
                  LET n == Cardinality(BoardLiveAround(before, c))
                  IN n = 3 \/ (n = 2 /\ before[c].alive)
            /\ world[c].nextState = world[c].alive

\* a step from a full top row: the cells under its middle are born, the
\* corners die, and nothing wraps to the bottom row
C27_Witness ==
    /\ op = "step"
    /\ {c \in Board : before[c].alive} = {<<0, 0>>, <<1, 0>>, <<2, 0>>}
    /\ world[<<1, 1>>].alive
    /\ ~world[<<0, 0>>].alive
    /\ ~world[<<1, 2>>].alive

\* C28: after clearWorld no gameChunks record remains, and a gameState
\* record, if there was one, is still there with generation 0 and isRunning
\* false.
C28_ClearResets ==
    op = "clearWorld" =>
        /\ Len(gameChunks) = 0
        /\ Len(gameState) = Len(before[2])
        /\ Len(gameState) > 0 =>
              /\ gameState[1].generation = 0
              /\ ~gameState[1].isRunning

\* a clearWorld on stored chunks while the simulation was running at a
\* generation above 0
C28_Witness ==
    /\ op = "clearWorld"
    /\ Len(before[1]) > 1
    /\ Len(before[2]) > 0
    /\ before[2][1].isRunning
    /\ before[2][1].generation > 0
    /\ Len(gameState) > 0

\* C29: a toggleSimulation call that returns has found a gameState record,
\* has negated its isRunning and changed nothing else, and returns the new
\* isRunning; a call that throws has found no gameState record, throws
\* 'Game state not found' and leaves every table as it was.
C29_ToggleFlips ==
    [][/\ op' = "toggleSimulation" =>
             /\ Len(gameState) > 0
             /\ Len(gameState') = 1
             /\ gameState'[1].isRunning = ~gameState[1].isRunning
             /\ gameState'[1].generation = gameState[1].generation
             /\ before'[2] = gameState'[1].isRunning
             /\ UNCHANGED <<gameChunks, chunks, worlds>>
       /\ op' = "toggleSimulation threw" =>
             /\ Len(gameState) = 0
             /\ before'[2] = "Game state not found"
             /\ UNCHANGED <<gameChunks, gameState, chunks, worlds>>]_vars

\* a toggleSimulation that paused a running simulation at a generation
\* above 0 and returned false
C29_Witness ==
    /\ op = "toggleSimulation"
    /\ before[1][1].isRunning
    /\ before[2] = FALSE
    /\ ~gameState[1].isRunning
    /\ gameState[1].generation > 0
    /\ Len(gameChunks) > 0

\* the cell lists of the records of a table for one chunk
CellListsAt(table, chunkX, chunkY) ==
    {table[i].cells :
        i \in {j \in 1..Len(table) :
                  table[j].chunkX = chunkX /\ table[j].chunkY = chunkY}}

\* the chunks a placeCells call names
NamedBy(chunkUpdates) ==
    {<<chunkUpdates[i].chunkX, chunkUpdates[i].chunkY>> : i \in DOMAIN chunkUpdates}

\* the list a call supplies for a chunk: the one of the last update naming it
SuppliedFor(chunkUpdates, chunkX, chunkY) ==
    LET naming == {i \in DOMAIN chunkUpdates :
                      /\ chunkUpdates[i].chunkX = chunkX
                      /\ chunkUpdates[i].chunkY = chunkY}
    IN chunkUpdates[CHOOSE i \in naming : \A j \in naming : j <= i].cells

\* C30: after placeCells every chunk the call names stores exactly the list
\* supplied for it (no record for an empty list, one record otherwise), and
\* the records of every other chunk and the gameState record are as before.
C30_PlaceReplaces ==
    op = "placeCells" =>
        LET named == NamedBy(before[3])
            keys == {<<gameChunks[i].chunkX, gameChunks[i].chunkY>> :
                        i \in 1..Len(gameChunks)}
                    \cup {<<before[1][i].chunkX, before[1][i].chunkY>> :
                              i \in 1..Len(before[1])}
        IN /\ \A k \in named :
                 LET supplied == SuppliedFor(before[3], k[1], k[2])
                     records == {i \in 1..Len(gameChunks) :
                                    /\ gameChunks[i].chunkX = k[1]
                                    /\ gameChunks[i].chunkY = k[2]}
                 IN IF Len(supplied) = 0
                    THEN records = {}
                    ELSE /\ Cardinality(records) = 1
                         /\ \A i \in records : gameChunks[i].cells = supplied
           /\ \A k \in keys \ named :
                 /\ CellListsAt(gameChunks, k[1], k[2]) = CellListsAt(before[1], k[1], k[2])
                 /\ Cardinality({i \in 1..Len(gameChunks) :
                                    /\ gameChunks[i].chunkX = k[1]
                                    /\ gameChunks[i].chunkY = k[2]}) = 1
           /\ gameState = before[2]

\* a placeCells on the chunks of a stepped blinker: chunk (0, 0) held a cell
\* the step produced and the call does not supply, and now holds the
\* supplied list; chunk (0, -1), which the call does not name, and the
\* gameState record of a running simulation are as they were
C30_Witness ==
    /\ op = "placeCells"
    /\ steps > 0
    /\ CellListsAt(before[1], 0, 0) = {<<packLocal(0, 0), packLocal(0, 1)>>}
    /\ CellListsAt(gameChunks, 0, 0) = {<<packLocal(0, 0), packLocal(1, 0)>>}
    /\ CellListsAt(gameChunks, 0, -1) = {<<packLocal(0, 63)>>}
    /\ Len(gameState) > 0
    /\ gameState[1].isRunning
    /\ gameState[1].generation > 0

\* C31: whatever placeCells (calls that name a chunk twice included),
\* stepSimulation and clearWorld calls were made, no two records of
\* gameChunks have the same chunkX and chunkY.
C31_OneChunkPerKey ==
    \A i, j \in 1..Len(gameChunks) :
        (gameChunks[i].chunkX = gameChunks[j].chunkX
            /\ gameChunks[i].chunkY = gameChunks[j].chunkY) => i = j

\* after a step, a placeCells call that names chunk (0, 0) twice found a
\* record of that chunk and another chunk's record, and both chunks are
\* still stored
C31_Witness ==
    /\ op = "placeCells"
    /\ steps > 0
    /\ Len(before[3]) = 2
    /\ before[3][1].chunkX = before[3][2].chunkX
    /\ before[3][1].chunkY = before[3][2].chunkY
    /\ existingChunk(before[1], 0, 0) # 0
    /\ existingChunk(gameChunks, 0, 0) # 0
    /\ Len(gameChunks) > 1

\* the default pattern for a viewport: a glider and a blinker placed from
\* (floor(width / 2), floor(height / 2))
DefaultCells(width, height) ==
    LET cx == CHOOSE h \in 0..width : 2 * h <= width /\ width < 2 * h + 2
        cy == CHOOSE h \in 0..height : 2 * h <= height /\ height < 2 * h + 2
    IN {<<cx + 1, cy>>, <<cx + 2, cy + 1>>,
        <<cx, cy + 2>>, <<cx + 1, cy + 2>>, <<cx + 2, cy + 2>>,
        <<cx + 5, cy + 5>>, <<cx + 6, cy + 5>>, <<cx + 7, cy + 5>>}

\* C32: in the Solid string-key and bit-packed views the world has a live
\* cell in every state, and after a tick or a toggle that installed an empty
\* Set the world is the default pattern for the viewport's width and height.
C32_WorldNeverEmpty ==
    ui.view \in {"solid", "packed"} =>
        /\ heap[worldRef] # {}
        /\ \A emptied \in {<<"tick", 3>>, <<"toggleCell", 6>>} :
              (op = emptied[1] /\ heap[before[emptied[2]]] = {}) =>
                  heap[worldRef] =
                      {viewKey(ui.view, c[1], c[2]) :
                          c \in DefaultCells(ui.viewport.width, ui.viewport.height)}

\* after a resize to 41 by 21, the bit-packed view ticked a world of one
\* cell: the step left no cell, and the world is the default pattern placed
\* from (20, 10)
C32_Witness ==
    /\ op = "tick"
    /\ ui.view = "packed"
    /\ ui.viewport = [width |-> 41, height |-> 21]
    /\ before[2] = {packedCellKey(0, 0)}
    /\ heap[before[3]] = {}
    /\ packedCellKey(21, 10) \in heap[worldRef]
    /\ packedCellKey(27, 15) \in heap[worldRef]
    /\ Cardinality(heap[worldRef]) = 8

\* C33: in the Solid views, whatever toggleRunning calls, ticks and other
\* events were handled, the active tick timers are the one gameInterval
\* names when running is true, and none when it is false.
C33_OneTimerWhenRunning ==
    ui.view \in {"solid", "packed", "plain"} =>
        /\ Cardinality(ui.timers) = (IF ui.running THEN 1 ELSE 0)
        /\ \A t \in ui.timers : t.id = ui.gameInterval

\* a Solid view that was started, stopped and started again: the second
\* timer is the only one
C33_Witness ==
    /\ op = "toggleRunning"
    /\ ui.view = "solid"
    /\ ui.running
    /\ ui.timersMade = 2
    /\ \E t \in ui.timers : t.id = 2

C36_PeriodSetAtStart ==
    [][ui.view \in {"solid", "packed"} =>
          /\ (op' = "toggleRunning" /\ ui'.running) =>
                \E t \in ui'.timers : t.id = ui'.gameInterval /\ t.period = ui.speed
          /\ op' # "toggleRunning" => ui'.timers = ui.timers]_vars

\* a simulation started at speed 200 whose selector was then set to 1000:
\* the timer still has period 200
C36_Witness ==
    /\ op = "setSpeed"
    /\ ui.view = "solid"
    /\ ui.running
    /\ ui.speed = 1000
    /\ ui.timers = {[id |-> 1, period |-> 200]}

\* C38: in the terminal a toggle by Enter and a glider by g happen only at
\* zoom 1.0 or more; at a smaller zoom the key leaves the world, the
\* generation, the viewport and the cursor as they were.
C38_EditNeedsZoom ==
    [][ui.view = "terminal" =>
          /\ op' \in {"toggleCell", "g"} => ui.viewport.zoom >= ZoomUnit
          /\ op' \in {"Enter ignored", "g ignored"} =>
                /\ ui.viewport.zoom < ZoomUnit
                /\ UNCHANGED <<heap, worldRef, generation>>
                /\ ui'.viewport = ui.viewport
                /\ ui'.cursor = ui.cursor]_vars

\* Enter at zoom 0.5 after a tick and a pan: the key was ignored
C38_Witness ==
    /\ op = "Enter ignored"
    /\ ui.viewport.zoom = 4
    /\ generation = 1
    /\ ui.viewport.x # 0
    /\ heap[worldRef] # {}

\* C39: in the terminal the cursor is within the world bounds of the
\* viewport, minX = x, maxX = floor(x + width / zoom - 1) and the same for y,
\* after every event and at every zoom.
C39_CursorInBounds ==
    ui.view = "terminal" =>
        /\ ui.viewport.zoom \in ZoomLevels
        /\ ui.cursor.x >= ui.viewport.x
        /\ (ui.cursor.x - ui.viewport.x + 1) * ui.viewport.zoom
              <= ui.viewport.width * ZoomUnit
        /\ ui.cursor.y >= ui.viewport.y
        /\ (ui.cursor.y - ui.viewport.y + 1) * ui.viewport.zoom
              <= ui.viewport.height * ZoomUnit

\* at zoom 4.0, after a pan that left the cursor outside and centred it, an
\* arrow key moved the cursor to the top row and the next one was clamped
C39_Witness ==
    /\ op = "arrow"
    /\ ui.viewport.zoom = 32
    /\ ui.viewport.x # 0
    /\ ui.cursor.y = ui.viewport.y
    /\ before[1] = ui.cursor
    /\ ui.keys = 3

\* C37: in the SVG view a move over the cell that was toggled last, with
\* the button held, changes nothing, and a move toggles only a cell that is
\* not the one toggled last; a press toggles its cell whatever was
\* remembered, and a release leaves no cell remembered.
C37_DragTogglesOnce ==
    [][ui.view = "svg" =>
          /\ op' = "toggleCell skipped" =>
                /\ before'[3] = "mousemove"
                /\ ui.isMouseDown
                /\ ui.lastToggledCell = cellKey(before'[1], before'[2])
                /\ UNCHANGED <<heap, worldRef, ui>>
          /\ op' = "toggleCell" =>
                LET k == cellKey(before'[3], before'[4])
                IN /\ before'[7] = "mousemove" =>
                         ui.isMouseDown /\ ui.lastToggledCell # k
                   /\ (k \in heap'[worldRef']) = (k \notin heap[worldRef])
                   /\ heap'[worldRef'] \ {k} = heap[worldRef] \ {k}
                   /\ ui'.isMouseDown
                   /\ ui'.lastToggledCell = k
          /\ op' = "handleMouseUp" =>
                ~ui'.isMouseDown /\ ui'.lastToggledCell = <<>>]_vars

\* a cell was pressed, the button released, the cell pressed again and the
\* mouse moved over it: the two presses toggled it on and off, and the move
\* was skipped
C37_Witness ==
    /\ op = "toggleCell skipped"
    /\ ui.view = "svg"
    /\ before = <<0, -1, "mousemove">>
    /\ Len(heap) = 3
    /\ cellKey(0, -1) \in heap[2]
    /\ heap[3] = heap[1]
    /\ ui.lastToggledCell = cellKey(0, -1)

\* C35: the gameState table never holds more than one record; after
\* initializeGameState it holds one, which the call returned: a new record
\* with generation 0 and isRunning false when there was none, and otherwise
\* the record that was there, unchanged.
C35_InitializeOnce ==
    /\ Len(gameState) <= 1
    /\ op = "initializeGameState" =>
          /\ Len(gameState) = 1
          /\ before[2] = gameState[1]
          /\ IF Len(before[1]) = 0
             THEN gameState[1] = [generation |-> 0, isRunning |-> FALSE]
             ELSE gameState = before[1]

\* an initializeGameState on a running simulation at a generation above 0:
\* the record is returned as it was
C35_Witness ==
    /\ op = "initializeGameState"
    /\ Len(before[1]) = 1
    /\ before[1][1].isRunning
    /\ before[1][1].generation > 0
    /\ before[2] = before[1][1]

====
